---- MODULE Spec2Model ----
(***************************************************************************)
(* Resumable batch extraction pipeline of MercazDafYomiExtractor           *)
(* (src/enhanced_youtube_extractor.py): progress store, batch loop,        *)
(* per-item retry loop, persistence and final reports.                     *)
(*                                                                         *)
(* One process runs run_extraction at a time.  The progress file, the      *)
(* transcript files and the reports live on disk and survive a process     *)
(* crash; everything else is process memory.                               *)
(***************************************************************************)
EXTENDS Integers, Sequences, FiniteSets, TLC

(* ---------------------------- bounds ---------------------------------- *)
\* longest channel enumeration explored
MaxVideos == 3
\* number of process starts (runs of run_extraction) explored
MaxRuns == 2
\* largest configured batch_size explored
MaxBatchSize == 2
\* largest configured max_retries explored
MaxRetriesCfg == 2
\* number of local I/O failures (transcript file, progress file, reports)
\* explored in one behaviour
MaxFaults == 1
\* largest configured max_retries explored for one call of
\* process_video_batch (the shipped configuration has 3)
MaxAttempts == 4

VideoIds == {"v1", "v2", "v3", "v4"}

VARIABLES
    channel,            \* what the remote channel enumeration lists
    config,             \* self.config: batch_size, max_retries
    disk,               \* the progress file extraction_progress.json
    catalog,            \* master_catalog.csv as written by this run
    summary,            \* extraction_summary.txt as written by this run
    pc,                 \* position of the process in run_extraction
    resume,             \* argument of run_extraction
    progress,           \* local progress dict of run_extraction
    all_videos,         \* local all_videos
    remaining_videos,   \* local remaining_videos
    i,                  \* loop variable of the batch loop (0-based offset)
    batch_num,          \* local batch_num
    batch_videos,       \* videos argument of process_video_batch
    idx,                \* position in batch_videos (1-based)
    attempt,            \* loop variable of the retry loop
    extraction,         \* extraction_metadata / transcript_text of the item
    batch_results,      \* local batch_results of process_video_batch
    all_results,        \* local all_results of run_extraction
    failed_videos,      \* self.failed_videos
    runs,               \* history: number of runs started
    faults,             \* history: number of local I/O failures so far
    startDisk,          \* history: the progress file a resumed run found
    loaded,             \* history: progress as it was at the start of the run
    entered,            \* history: ids that entered the item state machine
    cur,                \* history: what happened to the current item
    batchLog,           \* history: outcomes of the items of the current batch
    firstBatch,         \* history: first batch_num processed in this run
    saves,              \* history: outcome of each progress write of the run
    prev,               \* history: how the previous run ended
    args,               \* arguments of the helper function being applied
    result              \* what that helper function returned

vars == <<channel, config, disk, catalog, summary, pc, resume,
          progress, all_videos, remaining_videos, i, batch_num, batch_videos,
          idx, attempt, extraction, batch_results, all_results, failed_videos,
          runs, faults, startDisk, loaded, entered, cur, batchLog, firstBatch, saves, prev,
          args, result>>

diskVars == <<disk, catalog, summary>>
loopVars == <<all_videos, remaining_videos, i, batch_num, batch_videos, idx>>
histRun  == <<runs, faults, startDisk, loaded, firstBatch, saves, prev>>
pureVars == <<args, result>>

(* ---------------------------- helpers --------------------------------- *)
Range(s) == {s[k] : k \in 1..Len(s)}

Min(a, b) == IF a < b THEN a ELSE b

\* Python's  x in list
InList(x, s) == \E k \in 1..Len(s) : s[k] = x

\* variant: the slice takes one element too many
Slice_Overlapping(s, lo, hi) == SubSeq(s, lo + 1, Min(hi + 1, Len(s)))

\* Python's  list[lo:hi]  (0-based, hi exclusive)
Slice(s, lo, hi) == SubSeq(s, lo + 1, Min(hi, Len(s)))

\* [v for v in videos if v not in completed]
RECURSIVE FilterNotIn(_, _)
FilterNotIn(s, done) ==
    IF s = <<>> THEN <<>>
    ELSE IF InList(Head(s), done) THEN FilterNotIn(Tail(s), done)
         ELSE <<Head(s)>> \o FilterNotIn(Tail(s), done)

\* all sequences over S of length 1..n
SeqsUpTo(S, n) == UNION {[1..k -> S] : k \in 1..n}

\* video ids are numbered in the order the listing first shows them
\* (a listing may show an id more than once)
IdNum(v) == CASE v = "v1" -> 1 [] v = "v2" -> 2 [] v = "v3" -> 3 [] OTHER -> 4

FirstAppearanceOrder(s) ==
    /\ IdNum(s[1]) = 1
    /\ \A k \in 2..Len(s) :
         \E j \in 1..(k - 1) : IdNum(s[k]) <= IdNum(s[j]) + 1

Channels == {s \in SeqsUpTo(VideoIds, MaxVideos) : FirstAppearanceOrder(s)}

(* ------------------------- progress store ----------------------------- *)
\* the dict both branches of load_progress return when there is no usable file
FreshProgress ==
    [completed_videos |-> <<>>, failed_videos |-> <<>>, last_batch |-> 0,
     total_processed |-> 0, start_time |-> "None"]

NoFile      == [kind |-> "absent",  data |-> FreshProgress]
CorruptFile == [kind |-> "corrupt", data |-> FreshProgress]
FileOf(p)   == [kind |-> "file",    data |-> p]

LoadProgress(d) ==
    IF d.kind = "absent" THEN FreshProgress
    ELSE IF d.kind = "file" THEN d.data
    ELSE FreshProgress

\* variant: the resume argument is not honoured
InitialProgress_IgnoresResume(r, d) ==
    [FreshProgress EXCEPT !.start_time = "set"]

\* variant: the progress file is loaded whatever the resume argument is
InitialProgress_AlwaysLoads(r, d) ==
    LET p == LoadProgress(d)
    IN  IF p.start_time = "None" THEN [p EXCEPT !.start_time = "set"] ELSE p

\* the progress dict run_extraction starts from
InitialProgress(r, d) ==
    LET p == IF r THEN LoadProgress(d)
             ELSE [FreshProgress EXCEPT !.start_time = "set"]
    IN  IF p.start_time = "None" THEN [p EXCEPT !.start_time = "set"] ELSE p

\* remaining_videos of run_extraction
RemainingVideos(r, p, videos) ==
    IF r /\ p.completed_videos # <<>>
    THEN FilterNotIn(videos, p.completed_videos)
    ELSE videos

\* variant: batches numbered from 0
BatchNum_ZeroBased(k, size) == k \div size

\* batch_num of the batch that starts at offset k
BatchNum(k, size) == (k \div size) + 1

TotalBatches(n, size) == (n + size - 1) \div size

\* the resume test of the batch loop
SkipBatch(r, num, p) == r /\ num <= p.last_batch

(* --------------------------- extraction ------------------------------- *)
\* what the remote transcript service does on one call
Responses == {"text", "blank", "none", "raise"}

\* extract_transcript: (transcript_text is non-empty, success, error)
ExtractTranscript(resp) ==
    CASE resp = "text"  -> [text |-> TRUE,  success |-> TRUE,  error |-> "None"]
      [] resp = "blank" -> [text |-> FALSE, success |-> TRUE,  error |-> "None"]
      [] resp = "none"  -> [text |-> FALSE, success |-> FALSE,
                            error |-> "No transcripts available"]
      [] OTHER          -> [text |-> FALSE, success |-> FALSE,
                            error |-> "exception"]

\* extraction_metadata = None before the first attempt
NoExtraction == [text |-> FALSE, success |-> FALSE, error |-> "Unset"]

\* variant: one pass too many
RetryLoopContinues_OneMore(a, maxr) == a <= maxr

\* range(max_retries)
RetryLoopContinues(a, maxr) == a < maxr

\* if attempt < max_retries - 1: sleep(2 ** attempt)
BackoffBefore(a, maxr) == a < maxr - 1

\* variant: the wait grows by one second per attempt
Pow2_Linear(n) == n + 1

\* 2 ** attempt
Pow2(n) == 2 ^ n

\* if transcript_text and extraction_metadata['success']
ExtractionUsable(e) == e.text /\ e.success

\* error_msg of the failure branch
ErrorMsg(e) == IF e.error = "Unset" THEN "Unknown error" ELSE e.error

(* ----------------------------- reports -------------------------------- *)
NoCatalog == [kind |-> "absent", rows |-> <<>>]
NoSummary == [kind |-> "absent", total |-> 0, successful |-> 0, failed |-> 0]

\* rows of all_results with status == 'success'
RECURSIVE CountSuccess(_)
CountSuccess(rows) ==
    IF rows = <<>> THEN 0
    ELSE (IF Head(rows).status = "success" THEN 1 ELSE 0) + CountSuccess(Tail(rows))

\* the statistics generate_summary_report writes
SummaryOf(results, failures) ==
    [kind |-> "written", total |-> Len(results),
     successful |-> CountSuccess(results), failed |-> Len(failures)]

(* ----------------------------- state ---------------------------------- *)
NoCur == [id |-> "none", attempts |-> 0, anySuccess |-> FALSE,
          failRecs |-> 0, succRecs |-> 0, waits |-> <<>>, delays |-> 0,
          enriched |-> FALSE, lastError |-> "Unset", artifact |-> "none",
          recordedError |-> "Unset", metadata |-> "Unset"]

NoPrev == [kind |-> "none", mid |-> FALSE, succ |-> {}, twoBatch |-> FALSE,
           b1 |-> {}, b2 |-> {}]

\* no helper function is being applied
NoArgs == <<>>
NoResult == <<>>

ItemPcs == {"video", "metadata", "extract", "backoff", "result", "rate_limit"}
RunningPcs == ItemPcs \cup {"enumerate", "batch_loop", "save_progress",
                            "report", "finalize"}
EndPcs == {"init", "returned", "finished", "errored", "crashed"}

Init ==
    /\ channel \in Channels
    /\ config \in [batch_size : 1..MaxBatchSize, max_retries : 1..MaxRetriesCfg]
    /\ disk = NoFile
    /\ catalog = NoCatalog
    /\ summary = NoSummary
    /\ pc = "init"
    /\ resume = TRUE
    /\ progress = FreshProgress
    /\ all_videos = <<>>
    /\ remaining_videos = <<>>
    /\ i = 0
    /\ batch_num = 0
    /\ batch_videos = <<>>
    /\ idx = 0
    /\ attempt = 0
    /\ extraction = NoExtraction
    /\ batch_results = <<>>
    /\ all_results = <<>>
    /\ failed_videos = <<>>
    /\ runs = 0
    /\ faults = 0
    /\ startDisk = NoFile
    /\ loaded = FreshProgress
    /\ entered = <<>>
    /\ cur = NoCur
    /\ batchLog = <<>>
    /\ firstBatch = 0
    /\ saves = <<>>
    /\ prev = NoPrev
    /\ args = NoArgs
    /\ result = NoResult

(* --------------------------- run_extraction --------------------------- *)
MemoryReset ==
    /\ progress' = FreshProgress
    /\ all_videos' = <<>>
    /\ remaining_videos' = <<>>
    /\ i' = 0
    /\ batch_num' = 0
    /\ batch_videos' = <<>>
    /\ idx' = 0
    /\ attempt' = 0
    /\ extraction' = NoExtraction
    /\ batch_results' = <<>>
    /\ all_results' = <<>>
    /\ failed_videos' = <<>>

\* a new process: __init__, then run_extraction up to the enumeration
Launch(r) ==
    /\ pc \in EndPcs
    /\ resume' = r
    /\ progress' = InitialProgress(r, disk)
    /\ loaded' = progress'
    /\ startDisk' = IF r THEN disk ELSE NoFile
    /\ all_videos' = <<>>
    /\ remaining_videos' = <<>>
    /\ i' = 0
    /\ batch_num' = 0
    /\ batch_videos' = <<>>
    /\ idx' = 0
    /\ attempt' = 0
    /\ extraction' = NoExtraction
    /\ batch_results' = <<>>
    /\ all_results' = <<>>
    /\ failed_videos' = <<>>
    /\ entered' = <<>>
    /\ cur' = NoCur
    /\ batchLog' = <<>>
    /\ firstBatch' = 0
    /\ saves' = <<>>
    /\ prev' = IF pc = "crashed" THEN prev ELSE NoPrev
    /\ catalog' = NoCatalog
    /\ summary' = NoSummary
    /\ pc' = "enumerate"
    /\ UNCHANGED <<pureVars, channel, config, disk, faults>>

\* the command is run once more
StartRun(r) ==
    /\ runs < MaxRuns
    /\ runs' = runs + 1
    /\ Launch(r)

\* variant: the two early returns are missing
EnumerationNextPc_NoEarlyReturn(vids, rem) == "batch_loop"

\* if not all_videos: return ... if not remaining_videos: return
EnumerationNextPc(vids, rem) ==
    IF vids = <<>> \/ rem = <<>> THEN "returned" ELSE "batch_loop"

\* get_channel_videos returns the listing, or [] when the API fails;
\* run_extraction returns when nothing is listed or nothing remains
GetChannelVideos ==
    /\ pc = "enumerate"
    /\ \E vids \in {channel, <<>>} :
        LET rem == RemainingVideos(resume, progress, vids) IN
        /\ all_videos' = vids
        /\ remaining_videos' = IF vids = <<>> THEN <<>> ELSE rem
        /\ pc' = EnumerationNextPc(vids, rem)
    /\ i' = 0
    /\ UNCHANGED <<pureVars, channel, config, diskVars, resume, progress, batch_num,
                   batch_videos, idx, attempt, extraction, batch_results,
                   all_results, failed_videos, histRun, entered, cur,
                   batchLog>>

\* for i in range(0, len(remaining_videos), batch_size): loop exhausted
BatchLoopEnd ==
    /\ pc = "batch_loop"
    /\ i >= Len(remaining_videos)
    /\ pc' = "report"
    /\ UNCHANGED <<pureVars, channel, config, diskVars, resume, progress, loopVars,
                   attempt, extraction, batch_results, all_results,
                   failed_videos, histRun, entered, cur, batchLog>>

\* if resume and batch_num <= progress.get('last_batch', 0): continue
SkipBatchStep ==
    /\ pc = "batch_loop"
    /\ i < Len(remaining_videos)
    /\ SkipBatch(resume, BatchNum(i, config.batch_size), progress)
    /\ i' = i + config.batch_size
    /\ batch_num' = BatchNum(i, config.batch_size)
    /\ UNCHANGED <<pureVars, channel, config, diskVars, pc, resume, progress, all_videos,
                   remaining_videos, batch_videos, idx, attempt, extraction,
                   batch_results, all_results, failed_videos, histRun,
                   entered, cur, batchLog>>

\* call of process_video_batch(batch_videos, batch_num, ...)
StartBatch ==
    /\ pc = "batch_loop"
    /\ i < Len(remaining_videos)
    /\ ~SkipBatch(resume, BatchNum(i, config.batch_size), progress)
    /\ batch_num' = BatchNum(i, config.batch_size)
    /\ batch_videos' = Slice(remaining_videos, i, i + config.batch_size)
    /\ idx' = 1
    /\ batch_results' = <<>>
    /\ batchLog' = <<>>
    /\ firstBatch' = IF firstBatch = 0 THEN BatchNum(i, config.batch_size)
                     ELSE firstBatch
    /\ pc' = "video"
    /\ UNCHANGED <<pureVars, channel, config, diskVars, resume, progress, all_videos,
                   remaining_videos, i, attempt, extraction, all_results,
                   failed_videos, runs, faults, startDisk, loaded, entered,
                   cur, saves, prev>>

(* ------------------------ process_video_batch ------------------------- *)
\* for i, video_data in enumerate(videos): loop exhausted
BatchItemsDone ==
    /\ pc = "video"
    /\ idx > Len(batch_videos)
    /\ pc' = "save_progress"
    /\ cur' = NoCur
    /\ UNCHANGED <<pureVars, channel, config, diskVars, resume, progress, loopVars,
                   attempt, extraction, batch_results, all_results,
                   failed_videos, histRun, entered, batchLog>>

\* variant: the membership test is missing
SkipCompleted_Never(vid, p) == FALSE

\* if video_id in progress['completed_videos']: continue
SkipCompleted(vid, p) == InList(vid, p.completed_videos)

SkipVideo ==
    /\ pc = "video"
    /\ idx <= Len(batch_videos)
    /\ SkipCompleted(batch_videos[idx], progress)
    /\ idx' = idx + 1
    /\ UNCHANGED <<pureVars, channel, config, diskVars, pc, resume, progress, all_videos,
                   remaining_videos, i, batch_num, batch_videos, attempt,
                   extraction, batch_results, all_results, failed_videos,
                   histRun, entered, cur, batchLog>>

\* the item enters the state machine
BeginVideo ==
    /\ pc = "video"
    /\ idx <= Len(batch_videos)
    /\ ~SkipCompleted(batch_videos[idx], progress)
    /\ entered' = Append(entered, batch_videos[idx])
    /\ cur' = [NoCur EXCEPT !.id = batch_videos[idx]]
    /\ pc' = "metadata"
    /\ UNCHANGED <<pureVars, channel, config, diskVars, resume, progress, loopVars,
                   attempt, extraction, batch_results, all_results,
                   failed_videos, histRun, batchLog>>

\* what the videos API does on one call
MetadataResponses == {"item", "no_items", "raise"}

\* get_video_metadata: the metadata dict, or None when the response has no
\* items or the call raises
GetVideoMetadataResult(resp) == IF resp = "item" THEN "dict" ELSE "None"

\* if detailed_metadata: video_data.update(detailed_metadata)
Enrich(md) == md = "dict"

\* variant: update() is called without the test; update(None) raises and
\* the exception leaves process_video_batch and run_extraction
MetadataNextPc_UnguardedUpdate(md) == IF md = "None" THEN "errored" ELSE "extract"

\* whatever get_video_metadata returned, the retry loop comes next
MetadataNextPc(md) == "extract"

GetVideoMetadata ==
    /\ pc = "metadata"
    /\ \E resp \in MetadataResponses :
        LET md == GetVideoMetadataResult(resp) IN
        /\ cur' = [cur EXCEPT !.metadata = md, !.enriched = Enrich(md)]
        /\ pc' = MetadataNextPc(md)
    /\ attempt' = 0
    /\ extraction' = NoExtraction
    /\ UNCHANGED <<pureVars, channel, config, diskVars, resume, progress, loopVars,
                   batch_results, all_results, failed_videos, histRun,
                   entered, batchLog>>

\* for attempt in range(max_retries): loop exhausted
RetryLoopEnd ==
    /\ pc = "extract"
    /\ ~RetryLoopContinues(attempt, config.max_retries)
    /\ pc' = "result"
    /\ UNCHANGED <<pureVars, channel, config, diskVars, resume, progress, loopVars,
                   attempt, extraction, batch_results, all_results,
                   failed_videos, histRun, entered, cur, batchLog>>

\* variant: the loop goes on after a successful attempt
BreaksLoop_Never(e) == FALSE

\* if extraction_metadata['success']: break
BreaksLoop(e) == e.success

\* one pass of the retry loop body up to the backoff test
ExtractAttempt ==
    /\ pc = "extract"
    /\ RetryLoopContinues(attempt, config.max_retries)
    /\ \E resp \in Responses :
        LET e == ExtractTranscript(resp) IN
        /\ extraction' = e
        /\ cur' = [cur EXCEPT !.attempts = @ + 1,
                              !.anySuccess = @ \/ e.success,
                              !.lastError = e.error]
        /\ IF BreaksLoop(e)
           THEN pc' = "result" /\ attempt' = attempt
           ELSE IF BackoffBefore(attempt, config.max_retries)
                THEN pc' = "backoff" /\ attempt' = attempt
                ELSE pc' = "extract" /\ attempt' = attempt + 1
    /\ UNCHANGED <<pureVars, channel, config, diskVars, resume, progress, loopVars,
                   batch_results, all_results, failed_videos, histRun,
                   entered, batchLog>>

\* time.sleep(2 ** attempt), then the next pass
Backoff ==
    /\ pc = "backoff"
    /\ cur' = [cur EXCEPT !.waits = Append(@, Pow2(attempt))]
    /\ attempt' = attempt + 1
    /\ pc' = "extract"
    /\ UNCHANGED <<pureVars, channel, config, diskVars, resume, progress, loopVars,
                   extraction, batch_results, all_results, failed_videos,
                   histRun, entered, batchLog>>

\* the result record of a processed video: its video_id and status fields
SuccessRow(vid) == [video_id |-> vid, status |-> "success"]

\* the dict appended to self.failed_videos: its video_id field (the error
\* field of the dict is kept in cur.recordedError while the item is current)
FailureRow(vid) == vid

\* variant: an id already in the failure list is not recorded again
AppendFailure_SkipsKnown(list, vid) ==
    IF InList(FailureRow(vid), list) THEN list
    ELSE Append(list, FailureRow(vid))

\* self.failed_videos.append({...})
AppendFailure(list, vid) == Append(list, FailureRow(vid))

\* variant: the counter is not advanced
MarkCompleted_NoCount(p, vid) ==
    [p EXCEPT !.completed_videos = Append(@, vid)]

\* progress after a successful save_transcript (lines 542-543)
MarkCompleted(p, vid) ==
    [p EXCEPT !.completed_videos = Append(@, vid), !.total_processed = @ + 1]

\* progress after exhausted extraction (line 564)
MarkFailed(p, vid) == [p EXCEPT !.failed_videos = Append(@, vid)]

\* variant: the id is put into the completed set before the file is written
MarkSaveError_Completes(p, vid) == MarkCompleted(p, vid)

\* progress after save_transcript raised (lines 547-554)
MarkSaveError(p, vid) == p

\* transcript_text, transcript_data and extraction_metadata are not read
\* again before lines 496-498 reassign them
ItemLocalsDead ==
    /\ extraction' = NoExtraction
    /\ attempt' = 0

\* success branch, save_transcript returns
PersistSuccess ==
    /\ pc = "result"
    /\ ExtractionUsable(extraction)
    /\ batch_results' = Append(batch_results, SuccessRow(cur.id))
    /\ progress' = MarkCompleted(progress, cur.id)
    /\ cur' = [cur EXCEPT !.succRecs = @ + 1, !.artifact = "full"]
    /\ batchLog' = Append(batchLog, [id |-> cur.id, outcome |-> "success"])
    /\ pc' = "rate_limit"
    /\ ItemLocalsDead
    /\ UNCHANGED <<pureVars, channel, config, diskVars, resume, loopVars, all_results,
                   failed_videos, histRun, entered>>

\* success branch, save_transcript raises (mkdir, open or write fails)
PersistFailure ==
    /\ pc = "result"
    /\ ExtractionUsable(extraction)
    /\ faults < MaxFaults
    /\ faults' = faults + 1
    /\ \E f \in {"none", "partial"} :
        cur' = [cur EXCEPT !.failRecs = @ + 1, !.artifact = f,
                           !.recordedError = "Save error"]
    /\ failed_videos' = AppendFailure(failed_videos, cur.id)
    /\ progress' = MarkSaveError(progress, cur.id)
    /\ batchLog' = Append(batchLog, [id |-> cur.id, outcome |-> "failure"])
    /\ pc' = "rate_limit"
    /\ ItemLocalsDead
    /\ UNCHANGED <<pureVars, channel, config, diskVars, resume, loopVars, batch_results,
                   all_results, runs, startDisk, loaded, firstBatch, saves,
                   prev, entered>>

\* else branch: record failure
RecordFailure ==
    /\ pc = "result"
    /\ ~ExtractionUsable(extraction)
    /\ failed_videos' = AppendFailure(failed_videos, cur.id)
    /\ progress' = MarkFailed(progress, cur.id)
    /\ cur' = [cur EXCEPT !.failRecs = @ + 1,
                          !.recordedError = ErrorMsg(extraction)]
    /\ batchLog' = Append(batchLog, [id |-> cur.id, outcome |-> "failure"])
    /\ pc' = "rate_limit"
    /\ ItemLocalsDead
    /\ UNCHANGED <<pureVars, channel, config, diskVars, resume, loopVars, batch_results,
                   all_results, histRun, entered>>

\* variant: the sleep sits inside the success branch
RateLimitSleeps_SuccessOnly(succeeded) == IF succeeded THEN 1 ELSE 0

\* number of rate-limit sleeps at the end of the loop body: the sleep is
\* outside the if/else on the outcome
RateLimitSleeps(succeeded) == 1

\* time.sleep(rate_limit_seconds), then the next item
RateLimit ==
    /\ pc = "rate_limit"
    /\ cur' = [NoCur EXCEPT !.id = cur.id,
                            !.delays = cur.delays
                                       + RateLimitSleeps(cur.succRecs > 0)]
    /\ idx' = idx + 1
    /\ pc' = "video"
    /\ UNCHANGED <<pureVars, channel, config, diskVars, resume, progress, all_videos,
                   remaining_videos, i, batch_num, batch_videos, attempt,
                   extraction, batch_results, all_results, failed_videos,
                   histRun, entered, batchLog>>

\* what save_progress leaves in the progress file: the dump when the write
\* succeeds; the old file when open() raises; a truncated file when the
\* write raises part-way.  The exception is logged and swallowed.
WriteOutcomes == {"ok", "open_fails", "write_fails"}

SaveProgressFile(d, p, w) ==
    IF w = "ok" THEN FileOf(p)
    ELSE IF w = "open_fails" THEN d
    ELSE CorruptFile

\* lines 570-574 and the return into run_extraction (lines 704-710)
SaveProgress ==
    /\ pc = "save_progress"
    /\ progress' = [progress EXCEPT !.last_batch = batch_num]
    /\ \E w \in WriteOutcomes :
        /\ w = "ok" \/ faults < MaxFaults
        /\ faults' = IF w = "ok" THEN faults ELSE faults + 1
        /\ disk' = SaveProgressFile(disk, progress', w)
        /\ saves' = Append(saves, w = "ok")
    /\ all_results' = all_results \o batch_results
    /\ i' = i + config.batch_size
    /\ pc' = "batch_loop"
    \* the locals of the finished call of process_video_batch are gone
    /\ batch_results' = <<>>
    /\ batch_videos' = <<>>
    /\ idx' = 0
    /\ UNCHANGED <<pureVars, channel, config, catalog, summary, resume, all_videos,
                   remaining_videos, batch_num, attempt, extraction,
                   failed_videos, runs, startDisk, loaded, entered, cur,
                   batchLog, firstBatch, prev>>

(* ------------------------------ reports ------------------------------- *)
\* generate_master_catalog and generate_summary_report both return
GenerateReports ==
    /\ pc = "report"
    /\ Len(all_results) > 0
    /\ catalog' = [kind |-> "written", rows |-> all_results]
    /\ summary' = SummaryOf(all_results, failed_videos)
    /\ pc' = "finalize"
    /\ UNCHANGED <<pureVars, channel, config, disk, resume, progress,
                   loopVars, attempt, extraction, batch_results, all_results,
                   failed_videos, histRun, entered, cur, batchLog>>

\* the catalog is written, then successful/total_videos divides by zero
\* after the first lines of the summary were written
ReportsDivideByZero ==
    /\ pc = "report"
    /\ Len(all_results) = 0
    /\ catalog' = [kind |-> "written", rows |-> all_results]
    /\ summary' = [NoSummary EXCEPT !.kind = "partial"]
    /\ pc' = "errored"
    /\ UNCHANGED <<pureVars, channel, config, disk, resume, progress,
                   loopVars, attempt, extraction, batch_results, all_results,
                   failed_videos, histRun, entered, cur, batchLog>>

\* opening master_catalog.csv raises; the exception leaves run_extraction
ReportsWriteFails ==
    /\ pc = "report"
    /\ faults < MaxFaults
    /\ faults' = faults + 1
    /\ pc' = "errored"
    /\ UNCHANGED <<pureVars, channel, config, diskVars, resume, progress, loopVars,
                   attempt, extraction, batch_results, all_results,
                   failed_videos, runs, startDisk, loaded, firstBatch, saves,
                   prev, entered, cur, batchLog>>

\* if os.path.exists(progress_file): os.rename(...)
Finalize ==
    /\ pc = "finalize"
    /\ disk' = IF disk.kind # "absent" THEN NoFile ELSE disk
    /\ pc' = "finished"
    /\ UNCHANGED <<pureVars, channel, config, catalog, summary, resume, progress,
                   loopVars, attempt, extraction, batch_results, all_results,
                   failed_videos, histRun, entered, cur, batchLog>>

(* --------------------------- the channel ------------------------------ *)
\* between two runs the channel publishes a new video; the uploads
\* playlist lists the newest video first
NewVideoId == CHOOSE v \in VideoIds \ Range(channel) :
                 \A w \in VideoIds \ Range(channel) : IdNum(v) <= IdNum(w)

Upload ==
    /\ pc \in EndPcs \ {"init"}
    /\ runs < MaxRuns
    /\ Len(channel) < MaxVideos
    /\ channel' = <<NewVideoId>> \o channel
    /\ UNCHANGED <<pureVars, config, diskVars, pc, resume, progress, loopVars, attempt,
                   extraction, batch_results, all_results, failed_videos,
                   histRun, entered, cur, batchLog>>

(* ------------------------------ crashes ------------------------------- *)
ResultIds(rows) == {rows[k].video_id : k \in 1..Len(rows)}

\* history: this run has two batches, processed batch 1 and wrote its
\* progress, and has not yet written the progress of batch 2
CrashedBetweenTwoBatches ==
    /\ TotalBatches(Len(remaining_videos), config.batch_size) = 2
    /\ firstBatch = 1
    /\ saves = <<TRUE>>
    /\ pc \in ItemPcs \cup {"batch_loop"}

\* the process is killed; memory is lost, the disk stays as it is.  While
\* save_progress is writing, the file may be left truncated.
Crash ==
    /\ pc \in RunningPcs
    /\ prev' = [kind |-> "crash", mid |-> pc \in ItemPcs,
                succ |-> ResultIds(all_results) \cup ResultIds(batch_results),
                twoBatch |-> CrashedBetweenTwoBatches,
                b1 |-> IF CrashedBetweenTwoBatches
                       THEN Range(Slice(remaining_videos, 0, config.batch_size))
                       ELSE {},
                b2 |-> IF CrashedBetweenTwoBatches
                       THEN Range(Slice(remaining_videos, config.batch_size,
                                        2 * config.batch_size))
                       ELSE {}]
    /\ disk' \in (IF pc = "save_progress" THEN {disk, CorruptFile} ELSE {disk})
    /\ pc' = "crashed"
    /\ MemoryReset
    /\ entered' = <<>>
    /\ cur' = NoCur
    /\ batchLog' = <<>>
    /\ firstBatch' = 0
    /\ saves' = <<>>
    /\ catalog' = NoCatalog
    /\ summary' = NoSummary
    /\ loaded' = FreshProgress
    /\ startDisk' = NoFile
    /\ resume' = TRUE
    /\ UNCHANGED <<pureVars, channel, config, runs, faults>>

Next ==
    \/ \E r \in BOOLEAN : StartRun(r)
    \/ GetChannelVideos
    \/ BatchLoopEnd
    \/ SkipBatchStep
    \/ StartBatch
    \/ BatchItemsDone
    \/ SkipVideo
    \/ BeginVideo
    \/ GetVideoMetadata
    \/ RetryLoopEnd
    \/ ExtractAttempt
    \/ Backoff
    \/ PersistSuccess
    \/ PersistFailure
    \/ RecordFailure
    \/ RateLimit
    \/ SaveProgress
    \/ GenerateReports
    \/ ReportsDivideByZero
    \/ ReportsWriteFails
    \/ Finalize
    \/ Crash
    \/ Upload

Spec == Init /\ [][Next]_vars

(* ===================== the progress file as text ====================== *)
(* save_progress and load_progress over the text of the progress file.    *)
(* Here the disk holds what was written unit by unit: the opening brace,  *)
(* one "key": value pair per field in the order json.dump emits them, the *)
(* closing brace.  progress is the dict handed to save_progress and is    *)
(* kept as it was at that call; loaded receives what load_progress        *)
(* returns to the process that runs afterwards.                           *)
ProgressFields == {"completed_videos", "failed_videos", "last_batch",
                   "total_processed", "start_time"}

\* insertion order of the dict literal (lines 443-449, 657-663)
FieldOrder == <<"completed_videos", "failed_videos", "last_batch",
                "total_processed", "start_time">>

Unit(key, val) == [k |-> key, v |-> val]

\* the text of a JSON object that holds the fields S of p
DumpFields(p, S) ==
    LET fs == SelectSeq(FieldOrder, LAMBDA f : f \in S)
    IN  <<Unit("{", 0)>> \o [j \in 1..Len(fs) |-> Unit(fs[j], p[fs[j]])]
                         \o <<Unit("}", 0)>>

\* json.dump(progress, f, ...)
JsonDump(p) == DumpFields(p, DOMAIN p)

\* json.load accepts the text: an object from its opening to its closing brace
JsonParses(t) ==
    /\ Len(t) >= 2
    /\ t[1].k = "{"
    /\ t[Len(t)].k = "}"
    /\ \A j \in 2..(Len(t) - 1) : t[j].k \in ProgressFields

\* the dict json.load returns (a repeated key keeps its last value)
JsonValue(t) ==
    LET mid == 2..(Len(t) - 1)
        last(f) == CHOOSE j \in mid :
                      t[j].k = f /\ \A j2 \in mid : t[j2].k = f => j2 <= j
    IN  [f \in {t[j].k : j \in mid} |-> t[last(f)].v]

TextFile(t) == [kind |-> "text", data |-> t]

\* what open() and json.load make of the file
ReadFile(d) ==
    IF d.kind = "text"
    THEN (IF JsonParses(d.data) THEN FileOf(JsonValue(d.data)) ELSE CorruptFile)
    ELSE d

\* variant: the file is opened for update and the old text stays behind
\* the part written so far
WriteText_NoTruncate(old, new, n) ==
    SubSeq(new, 1, n) \o
        (IF old.kind = "text" THEN SubSeq(old.data, n + 1, Len(old.data)) ELSE <<>>)

\* open(progress_file, 'w') empties the file, then n units of the dump
\* reach it
WriteText(old, new, n) == SubSeq(new, 1, n)

\* progress states a process may hold at a batch boundary
StoreStates ==
    {[completed_videos |-> c, failed_videos |-> f, last_batch |-> b,
      total_processed |-> Len(c), start_time |-> "set"] :
        c \in {<<>>, <<"v1">>}, f \in {<<>>, <<"v2">>}, b \in 0..MaxBatchSize}

\* what the progress file may hold when a process starts: nothing, the
\* complete dump of a state, a part of one, or an object with some fields
StoreFiles ==
    {NoFile}
      \cup {TextFile(DumpFields(q, S)) : q \in StoreStates, S \in SUBSET ProgressFields}
      \cup {TextFile(SubSeq(JsonDump(q), 1, n)) : q \in StoreStates, n \in 0..3}

StoreInit ==
    /\ channel = <<"v1">>
    /\ config = [batch_size |-> 1, max_retries |-> 1]
    /\ disk \in StoreFiles
    /\ catalog = NoCatalog
    /\ summary = NoSummary
    /\ pc \in {"init", "save_progress"}
    /\ resume = TRUE
    /\ progress \in StoreStates
    /\ all_videos = <<>>
    /\ remaining_videos = <<>>
    /\ i = 0
    /\ batch_num = 0
    /\ batch_videos = <<>>
    /\ idx = 0
    /\ attempt = 0
    /\ extraction = NoExtraction
    /\ batch_results = <<>>
    /\ all_results = <<>>
    /\ failed_videos = <<>>
    /\ runs = 0
    /\ faults = 0
    /\ startDisk = NoFile
    /\ loaded = FreshProgress
    /\ entered = <<>>
    /\ cur = NoCur
    /\ batchLog = <<>>
    /\ firstBatch = 0
    /\ saves = <<>>
    /\ prev = NoPrev
    /\ args = NoArgs
    /\ result = NoResult

storeFrame == <<pureVars, channel, config, catalog, summary, resume, progress,
                all_videos, remaining_videos, i, batch_num, batch_videos, idx,
                attempt, extraction, batch_results, all_results,
                failed_videos, runs, faults, startDisk, entered, cur,
                batchLog, firstBatch>>

\* save_progress returns: the dump is complete, or open() raised, or the
\* write raised after n units; the exception is logged and swallowed
StoreSave ==
    /\ pc = "save_progress"
    /\ \E w \in WriteOutcomes :
        /\ \E n \in 0..(Len(JsonDump(progress)) - 1) :
             disk' = IF w = "ok" THEN TextFile(JsonDump(progress))
                     ELSE IF w = "open_fails" THEN disk
                     ELSE TextFile(WriteText(disk, JsonDump(progress), n))
        /\ saves' = Append(saves, w = "ok")
    /\ pc' = "returned"
    /\ UNCHANGED <<storeFrame, loaded, prev>>

\* the process is killed inside save_progress after open() and n units
StoreCrashInSave ==
    /\ pc = "save_progress"
    /\ \E n \in 0..Len(JsonDump(progress)) :
         disk' = TextFile(WriteText(disk, JsonDump(progress), n))
    /\ prev' = [NoPrev EXCEPT !.kind = "crash"]
    /\ pc' = "crashed"
    /\ UNCHANGED <<storeFrame, loaded, saves>>

\* the next process: progress = self.load_progress()
StoreLoad ==
    /\ pc \in {"init", "returned", "crashed"}
    /\ loaded' = LoadProgress(ReadFile(disk))
    /\ pc' = "loaded"
    /\ UNCHANGED <<storeFrame, disk, saves, prev>>

\* lines 665-677 with resume: progress.get('start_time') tolerates a
\* missing key, progress['completed_videos'] raises KeyError on one
StoreResume ==
    /\ pc = "loaded"
    /\ IF "completed_videos" \in DOMAIN loaded
       THEN /\ loaded' = [f \in DOMAIN loaded \cup {"start_time"} |->
                            IF f = "start_time"
                            THEN (IF f \in DOMAIN loaded /\ loaded[f] # "None"
                                  THEN loaded[f] ELSE "set")
                            ELSE loaded[f]]
            /\ pc' = "enumerate"
       ELSE /\ loaded' = loaded
            /\ pc' = "errored"
    /\ UNCHANGED <<storeFrame, disk, saves, prev>>

StoreNext ==
    \/ StoreSave
    \/ StoreCrashInSave
    \/ StoreLoad
    \/ StoreResume

StoreSpec == StoreInit /\ [][StoreNext]_vars

(* ======================== properties ================================== *)
\* the batch loop of this run is over
AfterLoopPcs == {"report", "finalize", "finished", "errored"}

Processed == Range(entered)

LastSaveOk == saves # <<>> /\ saves[Len(saves)]

NumBatches == TotalBatches(Len(remaining_videos), config.batch_size)

\* every batch of remaining_videos went through process_video_batch
AllBatchesRan == pc \in AfterLoopPcs /\ Len(saves) = NumBatches

(* C1: resume idempotence.  A resumed run that gets through its batch     *)
(* loop has processed exactly the enumerated videos that are not in the   *)
(* completed set it loaded, whatever last_batch the file held.            *)
C1_ResumeIdempotence ==
    (resume /\ pc \in AfterLoopPcs)
        => Processed = Range(all_videos) \ Range(loaded.completed_videos)

(* C2: batch-boundary durability.  After a crash of a two-batch run that  *)
(* had saved batch 1 and not yet batch 2, the resumed run processes no    *)
(* item of the original batch 1 and every item of the original batch 2.   *)
C2_BatchBoundaryDurability ==
    (resume /\ pc \in AfterLoopPcs /\ prev.kind = "crash" /\ prev.twoBatch
       /\ prev.b1 \cap prev.b2 = {})
        => (Processed \cap prev.b1 = {} /\ prev.b2 \subseteq Processed)

(* C3: a video whose id is in the completed set of the progress file a    *)
(* resumed run starts from never enters the item state machine.           *)
C3_CompletedNeverReenters ==
    (resume /\ startDisk.kind = "file")
        => Processed \cap Range(startDisk.data.completed_videos) = {}

C3_Witness ==
    /\ resume
    /\ pc = "report"
    /\ startDisk.kind = "file"
    /\ \E k \in 1..Len(all_videos) :
         InList(all_videos[k], startDisk.data.completed_videos)
    /\ entered # <<>>

(* C4: after a crash in the middle of a batch, the resumed run processes  *)
(* again at most batch_size of the videos the crashed run had processed   *)
(* successfully.                                                          *)
C4_ReprocessAtMostOneBatch ==
    (resume /\ prev.kind = "crash" /\ prev.mid)
        => Cardinality(Processed \cap prev.succ) <= config.batch_size

(* C5: retry exhaustion.  When every extraction attempt for a video       *)
(* reports failure, exactly max_retries attempts are made, then exactly   *)
(* one failure is recorded; no success row is recorded and the id is not  *)
(* put into the completed set.                                            *)
C5_RetryExhaustion ==
    /\ (pc \in ItemPcs) => cur.attempts <= config.max_retries
    /\ (pc = "result" /\ ~cur.anySuccess) => cur.attempts = config.max_retries
    /\ (pc = "rate_limit" /\ ~cur.anySuccess)
         => /\ cur.attempts = config.max_retries
            /\ cur.failRecs = 1
            /\ cur.succRecs = 0
            /\ failed_videos # <<>>
            /\ failed_videos[Len(failed_videos)] = cur.id
            /\ ~InList(cur.id, progress.completed_videos)
            /\ ~(cur.id \in ResultIds(batch_results))

C5_Witness ==
    /\ pc = "rate_limit"
    /\ ~cur.anySuccess
    /\ config.max_retries = 2
    /\ cur.attempts = 2
    /\ cur.failRecs = 1

\* the listing shows every id once
NoRepeats(s) == \A j, k \in 1..Len(s) : s[j] = s[k] => j = k

(* C6: at the end of a run the completed set and the failed set of the    *)
(* progress state have no id in common: an id that a prior run left in    *)
(* the failed set and that succeeds in this run is in the completed set   *)
(* and no longer in the failed set.  Stated for runs whose listing shows  *)
(* every id once, so that only an id failed in a prior run can be in both.*)
C6_CompletedFailedDisjoint ==
    (pc = "finished" /\ NoRepeats(all_videos))
        => Range(progress.completed_videos) \cap Range(progress.failed_videos) = {}

(* C7: the progress state written at a batch boundary has every           *)
(* successful item of the batch in the completed set and every failed     *)
(* item of the batch (extraction or file-write failure) in the failed set.*)
C7_BatchOutcomesSaved ==
    (pc = "batch_loop" /\ LastSaveOk)
        => /\ disk.kind = "file"
           /\ \A k \in 1..Len(batchLog) :
                /\ batchLog[k].outcome = "success"
                     => InList(batchLog[k].id, disk.data.completed_videos)
                /\ batchLog[k].outcome = "failure"
                     => InList(batchLog[k].id, disk.data.failed_videos)

(* C8 as stated: after a run in which all batches ran, the persisted      *)
(* last-completed-batch index is the number of batches minus 1.           *)
C8_LastBatchZeroBased ==
    (pc = "report" /\ AllBatchesRan /\ LastSaveOk)
        => (disk.kind = "file" /\ disk.data.last_batch = NumBatches - 1)

(* C8 amended: after a run in which all batches ran, last_batch of the    *)
(* progress state handed to save_progress after the final batch is the    *)
(* number of batches (1-based index of the final batch), and that is what *)
(* the progress file holds when that write succeeded.                     *)
C8_LastBatchOneBased ==
    (pc = "report" /\ AllBatchesRan)
        => /\ progress.last_batch = NumBatches
           /\ LastSaveOk => (disk.kind = "file" /\ disk.data.last_batch = NumBatches)

C8_Witness ==
    /\ pc = "report"
    /\ AllBatchesRan
    /\ LastSaveOk
    /\ Len(remaining_videos) = 3
    /\ config.batch_size = 2
    /\ disk.kind = "file"
    /\ disk.data.last_batch = 2

(* C9: the catalog of a run whose reports were written holds one row for  *)
(* every item the run processed, failed items included.                   *)
C9_CatalogRowPerProcessedItem ==
    (pc \in {"finalize", "finished"} /\ catalog.kind = "written")
        => /\ Len(catalog.rows) = Len(entered)
           /\ ResultIds(catalog.rows) = Processed

(* C10: when the first item of a later batch has begun, the progress file *)
(* holds the progress of the batch before it: its batch number as         *)
(* last_batch and the completed and failed ids up to that batch.          *)
C10_SavedBeforeNextBatch ==
    (pc = "metadata" /\ batchLog = <<>> /\ saves # <<>>)
        => disk = FileOf(progress)

(* ---------------------- progress store (text) ------------------------- *)
\* the four fields of the Progress State and the counter are all there,
\* each of its kind
WellFormed(p) ==
    /\ DOMAIN p = ProgressFields
    /\ p.last_batch \in Nat
    /\ p.total_processed \in Nat
    /\ \A k \in 1..Len(p.completed_videos) : p.completed_videos[k] \in VideoIds
    /\ \A k \in 1..Len(p.failed_videos) : p.failed_videos[k] \in VideoIds

\* the file holds the complete dump of a progress state
HoldsSavedState(d) ==
    d.kind = "text" /\ \E q \in StoreStates : d.data = JsonDump(q)

(* C11: whatever the progress file holds - nothing, a truncated dump, an  *)
(* object that lacks some of the fields - load_progress returns a         *)
(* well-formed progress state, and it is the fresh zero-valued state      *)
(* unless the file holds the complete dump of a saved state.              *)
C11_LoadReturnsWellFormed ==
    (pc = "loaded")
        => /\ WellFormed(loaded)
           /\ (~HoldsSavedState(disk)) => loaded = FreshProgress

(* C12: after a crash at any point while save_progress is writing, a      *)
(* later load_progress returns the state that save was writing, complete, *)
(* or the fresh empty state: never a mix of the old and the new file and  *)
(* never a part of the completed or failed set.                           *)
C12_CrashInSaveLoadsWholeOrFresh ==
    (pc = "loaded" /\ prev.kind = "crash")
        => (loaded = FreshProgress \/ loaded = progress)

C12_Witness ==
    /\ pc = "loaded"
    /\ prev.kind = "crash"
    /\ disk.kind = "text"
    /\ Len(disk.data) = 2
    /\ disk.data[2].k = "completed_videos"
    /\ progress.completed_videos # <<>>
    /\ loaded = FreshProgress

(* ------------------------- end of the run ----------------------------- *)
(* C13: a run that processed all its batches, whatever the outcomes of    *)
(* its items, ends with the progress file moved out of the active path    *)
(* (so the next run loads the fresh state).  Stated for runs without any  *)
(* local I/O failure.                                                     *)
C13_FullRunMovesProgressFile ==
    (AllBatchesRan /\ pc \in {"finished", "errored"} /\ faults = 0)
        => disk.kind = "absent"

(* C14: the progress file is moved away before the result records reach   *)
(* the report writer: whenever the catalog or the summary has been        *)
(* touched, and whenever the reports have failed, the progress file is no *)
(* longer in the active path.  Stated for runs with at least one result   *)
(* record.                                                                *)
C14_FinalizedBeforeReports ==
    (all_results # <<>>)
        => /\ (catalog.kind # "absent" \/ summary.kind # "absent")
                 => disk.kind = "absent"
           /\ pc = "errored" => disk.kind = "absent"

\* self.failed_videos holds an id that progress['failed_videos'] lacks:
\* a transcript file could not be written in this run
SaveErrorInRun ==
    \E k \in 1..Len(failed_videos) :
        ~InList(failed_videos[k], progress.failed_videos)

\* batches the resume test passes over
SkippedBatches == IF resume THEN Min(loaded.last_batch, NumBatches) ELSE 0

(* C15: when save_transcript raises after a successful extraction, one    *)
(* failure record is made for that item and the item stays out of the     *)
(* completed set and out of the result rows; the run goes on: at the end  *)
(* of the batch loop every item of every batch that was not passed over   *)
(* has been processed and the progress of each such batch was written.    *)
C15_SaveErrorHitsOneItem ==
    /\ (pc = "rate_limit" /\ cur.recordedError = "Save error")
         => /\ cur.failRecs = 1
            /\ cur.succRecs = 0
            /\ failed_videos # <<>>
            /\ failed_videos[Len(failed_videos)] = cur.id
            /\ ~InList(cur.id, progress.completed_videos)
            /\ ~(cur.id \in ResultIds(batch_results))
    /\ (pc \in AfterLoopPcs /\ SaveErrorInRun)
         => /\ Range(Slice(remaining_videos, SkippedBatches * config.batch_size,
                           Len(remaining_videos))) \subseteq Processed
            /\ Len(saves) = NumBatches - SkippedBatches

C15_Witness ==
    /\ pc = "report"
    /\ Len(entered) = 3
    /\ InList(entered[1], failed_videos)
    /\ ~InList(entered[1], progress.failed_videos)
    /\ ~InList(entered[1], progress.completed_videos)
    /\ InList(entered[2], progress.completed_videos)
    /\ Len(saves) = 2

(* C16: a run whose enumeration fails or lists nothing returns at once:   *)
(* no item is processed, the progress file is as it was, no catalog and   *)
(* no summary is written and the file is not moved.  A run ends in no     *)
(* other way before its batch loop is over.                               *)
C16_OnlyEnumerationAborts ==
    [][ /\ (pc # "returned" /\ pc' = "returned" /\ all_videos' = <<>>)
             => /\ pc = "enumerate"
                /\ disk' = disk
                /\ catalog' = NoCatalog
                /\ summary' = NoSummary
                /\ entered' = <<>>
        /\ (pc' = "enumerate") => disk' = disk
        /\ (all_videos' = <<>>)
             => pc' \in {"init", "enumerate", "returned", "crashed"}
        /\ (pc' = "returned")
             => (all_videos' = <<>> \/ remaining_videos' = <<>>) /\ entered' = <<>>
        /\ (pc' \in {"finished", "errored"}) => i' >= Len(remaining_videos')
      ]_vars

C16_Witness ==
    /\ pc = "returned"
    /\ all_videos = <<>>
    /\ channel # <<>>
    /\ runs = 2
    /\ disk.kind = "file"
    /\ disk.data.completed_videos # <<>>

(* C17: every run that gets through its batch loop and meets no local I/O *)
(* failure has written the whole summary - totals, counts and the list of *)
(* failures - also when no item succeeded.                                *)
C17_SummaryAlwaysProduced ==
    (pc \in {"finalize", "finished", "errored"} /\ faults = 0)
        => /\ summary.kind = "written"
           /\ summary.failed = Len(failed_videos)

(* ------------------------------ items --------------------------------- *)
(* C18: when get_video_metadata returns None the item is not abandoned:   *)
(* video_data is not updated and the item goes through the retry loop, so *)
(* that at least one extraction attempt is made before its result.        *)
C18_MetadataFailureNonFatal ==
    (cur.metadata = "None")
        => /\ pc \in {"extract", "backoff", "result", "rate_limit"}
           /\ ~cur.enriched
           /\ pc \in {"result", "rate_limit"} => cur.attempts >= 1

C18_Witness ==
    /\ pc = "rate_limit"
    /\ cur.metadata = "None"
    /\ ~cur.enriched
    /\ cur.succRecs = 1
    /\ cur.artifact = "full"

(* C19: a failure of transcript extraction is recorded for an item only   *)
(* after max_retries attempts, and its message is the error of the last   *)
(* attempt.                                                               *)
C19_FailureOnlyAfterAllAttempts ==
    (pc = "rate_limit" /\ cur.recordedError \notin {"Unset", "Save error"})
        => /\ cur.attempts = config.max_retries
           /\ cur.recordedError = cur.lastError

(* C20: after an attempt that reports success no further attempt is made  *)
(* for the item (the successful attempt is the last one), and an item     *)
(* that reaches its result has had between 1 and max_retries attempts.    *)
C20_StopAfterSuccess ==
    /\ (pc \in ItemPcs /\ cur.anySuccess)
         => /\ pc \in {"result", "rate_limit"}
            /\ cur.lastError = "None"
    /\ (pc \in {"result", "rate_limit"})
         => (1 <= cur.attempts /\ cur.attempts <= config.max_retries)

C20_Witness ==
    /\ pc = "result"
    /\ cur.anySuccess
    /\ cur.attempts = 1
    /\ config.max_retries = 2
    /\ extraction.success

(* ================ one call of process_video_batch ===================== *)
(* The first batch of a run that started without a progress file, from    *)
(* the call of process_video_batch to its save_progress, with max_retries *)
(* up to MaxAttempts.                                                     *)
BatchInit ==
    /\ channel \in {s \in Channels : Len(s) <= MaxBatchSize}
    /\ config \in [batch_size : {MaxBatchSize}, max_retries : 1..MaxAttempts]
    /\ disk = NoFile
    /\ catalog = NoCatalog
    /\ summary = NoSummary
    /\ pc = "video"
    /\ resume = TRUE
    /\ progress = InitialProgress(TRUE, NoFile)
    /\ all_videos = channel
    /\ remaining_videos = channel
    /\ i = 0
    /\ batch_num = BatchNum(0, MaxBatchSize)
    /\ batch_videos = Slice(channel, 0, MaxBatchSize)
    /\ idx = 1
    /\ attempt = 0
    /\ extraction = NoExtraction
    /\ batch_results = <<>>
    /\ all_results = <<>>
    /\ failed_videos = <<>>
    /\ runs = 1
    /\ faults = 0
    /\ startDisk = NoFile
    /\ loaded = InitialProgress(TRUE, NoFile)
    /\ entered = <<>>
    /\ cur = NoCur
    /\ batchLog = <<>>
    /\ firstBatch = BatchNum(0, MaxBatchSize)
    /\ saves = <<>>
    /\ prev = NoPrev
    /\ args = NoArgs
    /\ result = NoResult

BatchNext ==
    \/ BatchItemsDone
    \/ SkipVideo
    \/ BeginVideo
    \/ GetVideoMetadata
    \/ RetryLoopEnd
    \/ ExtractAttempt
    \/ Backoff
    \/ PersistSuccess
    \/ PersistFailure
    \/ RecordFailure
    \/ RateLimit
    \/ SaveProgress

BatchSpec == BatchInit /\ [][BatchNext]_vars

(* ========================== the classifiers =========================== *)
(* classify_video of the extractor and classify_content of the organizer  *)
(* as functions of (title, description) and of the pattern tables.  A     *)
(* text is the sequence of its characters, so that lower-casing, joining  *)
(* and the substring test are what they are in the code.                  *)

\* the run variables while no run is under way
runVars == <<channel, config, disk, catalog, summary, pc, resume,
             progress, all_videos, remaining_videos, i, batch_num,
             batch_videos, idx, attempt, extraction, batch_results,
             all_results, failed_videos, runs, faults, startDisk, loaded,
             entered, cur, batchLog, firstBatch, saves, prev>>

NoRun ==
    /\ channel = <<"v1">>
    /\ config = [batch_size |-> MaxBatchSize, max_retries |-> MaxRetriesCfg]
    /\ disk = NoFile
    /\ catalog = NoCatalog
    /\ summary = NoSummary
    /\ pc = "init"
    /\ resume = TRUE
    /\ progress = FreshProgress
    /\ all_videos = <<>>
    /\ remaining_videos = <<>>
    /\ i = 0
    /\ batch_num = 0
    /\ batch_videos = <<>>
    /\ idx = 0
    /\ attempt = 0
    /\ extraction = NoExtraction
    /\ batch_results = <<>>
    /\ all_results = <<>>
    /\ failed_videos = <<>>
    /\ runs = 0
    /\ faults = 0
    /\ startDisk = NoFile
    /\ loaded = FreshProgress
    /\ entered = <<>>
    /\ cur = NoCur
    /\ batchLog = <<>>
    /\ firstBatch = 0
    /\ saves = <<>>
    /\ prev = NoPrev

\* self.config['tractate_patterns'] of the extractor, in declared order;
\* a text is the sequence of its characters
config_tractate_patterns == <<
    [name |-> "Berachos",
     patterns |-> <<<<"b", "e", "r", "a", "c", "h", "o", "s">>,
                    <<"b", "e", "r", "a", "k", "h", "o", "t">>>>],
    [name |-> "Shabbos",
     patterns |-> <<<<"s", "h", "a", "b", "b", "o", "s">>,
                    <<"s", "h", "a", "b", "b", "a", "t">>>>],
    [name |-> "Eruvin", patterns |-> <<<<"e", "r", "u", "v", "i", "n">>>>],
    [name |-> "Pesachim",
     patterns |-> <<<<"p", "e", "s", "a", "c", "h", "i", "m">>>>],
    [name |-> "Shekalim",
     patterns |-> <<<<"s", "h", "e", "k", "a", "l", "i", "m">>>>],
    [name |-> "Yoma", patterns |-> <<<<"y", "o", "m", "a">>>>],
    [name |-> "Sukkah", patterns |-> <<<<"s", "u", "k", "k", "a", "h">>>>],
    [name |-> "Beitzah",
     patterns |-> <<<<"b", "e", "i", "t", "z", "a", "h">>,
                    <<"b", "e", "i", "t", "z", "a">>>>],
    [name |-> "Rosh_Hashanah",
     patterns |-> <<<<"r", "o", "s", "h", " ", "h", "a", "s", "h", "a", "n", "a", "h">>,
                    <<"r", "o", "s", "h", "_", "h", "a", "s", "h", "a", "n", "a", "h">>>>],
    [name |-> "Taanis",
     patterns |-> <<<<"t", "a", "a", "n", "i", "s">>,
                    <<"t", "a", "a", "n", "i", "t">>>>],
    [name |-> "Megillah",
     patterns |-> <<<<"m", "e", "g", "i", "l", "l", "a", "h">>>>],
    [name |-> "Moed_Katan",
     patterns |-> <<<<"m", "o", "e", "d", " ", "k", "a", "t", "a", "n">>,
                    <<"m", "o", "e", "d", "_", "k", "a", "t", "a", "n">>>>],
    [name |-> "Chagigah",
     patterns |-> <<<<"c", "h", "a", "g", "i", "g", "a", "h">>>>],
    [name |-> "Yevamos",
     patterns |-> <<<<"y", "e", "v", "a", "m", "o", "s">>,
                    <<"y", "e", "v", "a", "m", "o", "t">>>>],
    [name |-> "Kesubos",
     patterns |-> <<<<"k", "e", "s", "u", "b", "o", "s">>,
                    <<"k", "e", "t", "u", "b", "b", "o", "t">>>>],
    [name |-> "Nedarim",
     patterns |-> <<<<"n", "e", "d", "a", "r", "i", "m">>>>],
    [name |-> "Nazir", patterns |-> <<<<"n", "a", "z", "i", "r">>>>],
    [name |-> "Sotah", patterns |-> <<<<"s", "o", "t", "a", "h">>>>],
    [name |-> "Gittin", patterns |-> <<<<"g", "i", "t", "t", "i", "n">>>>],
    [name |-> "Kiddushin",
     patterns |-> <<<<"k", "i", "d", "d", "u", "s", "h", "i", "n">>>>],
    [name |-> "Bava_Kamma",
     patterns |-> <<<<"b", "a", "v", "a", " ", "k", "a", "m", "m", "a">>,
                    <<"b", "a", "v", "a", "_", "k", "a", "m", "m", "a">>>>],
    [name |-> "Bava_Metzia",
     patterns |-> <<<<"b", "a", "v", "a", " ", "m", "e", "t", "z", "i", "a">>,
                    <<"b", "a", "v", "a", "_", "m", "e", "t", "z", "i", "a">>>>],
    [name |-> "Bava_Basra",
     patterns |-> <<<<"b", "a", "v", "a", " ", "b", "a", "s", "r", "a">>,
                    <<"b", "a", "v", "a", "_", "b", "a", "s", "r", "a">>>>],
    [name |-> "Sanhedrin",
     patterns |-> <<<<"s", "a", "n", "h", "e", "d", "r", "i", "n">>>>],
    [name |-> "Makkos",
     patterns |-> <<<<"m", "a", "k", "k", "o", "s">>,
                    <<"m", "a", "k", "k", "o", "t">>>>],
    [name |-> "Shevuos",
     patterns |-> <<<<"s", "h", "e", "v", "u", "o", "s">>,
                    <<"s", "h", "e", "v", "u", "o", "t">>>>],
    [name |-> "Avodah_Zarah",
     patterns |-> <<<<"a", "v", "o", "d", "a", "h", " ", "z", "a", "r", "a", "h">>,
                    <<"a", "v", "o", "d", "a", "h", "_", "z", "a", "r", "a", "h">>>>],
    [name |-> "Horayos",
     patterns |-> <<<<"h", "o", "r", "a", "y", "o", "s">>,
                    <<"h", "o", "r", "a", "y", "o", "t">>>>],
    [name |-> "Zevachim",
     patterns |-> <<<<"z", "e", "v", "a", "c", "h", "i", "m">>>>],
    [name |-> "Menachos",
     patterns |-> <<<<"m", "e", "n", "a", "c", "h", "o", "s">>,
                    <<"m", "e", "n", "a", "c", "h", "o", "t">>>>],
    [name |-> "Chullin",
     patterns |-> <<<<"c", "h", "u", "l", "l", "i", "n">>>>],
    [name |-> "Bechorot",
     patterns |-> <<<<"b", "e", "c", "h", "o", "r", "o", "t">>,
                    <<"b", "e", "c", "h", "o", "r", "o", "s">>>>],
    [name |-> "Arachin",
     patterns |-> <<<<"a", "r", "a", "c", "h", "i", "n">>>>],
    [name |-> "Temurah",
     patterns |-> <<<<"t", "e", "m", "u", "r", "a", "h">>>>],
    [name |-> "Kerisos",
     patterns |-> <<<<"k", "e", "r", "i", "s", "o", "s">>,
                    <<"k", "e", "r", "i", "t", "o", "t">>>>],
    [name |-> "Meilah", patterns |-> <<<<"m", "e", "i", "l", "a", "h">>>>],
    [name |-> "Kinnim", patterns |-> <<<<"k", "i", "n", "n", "i", "m">>>>],
    [name |-> "Tamid", patterns |-> <<<<"t", "a", "m", "i", "d">>>>],
    [name |-> "Midos",
     patterns |-> <<<<"m", "i", "d", "o", "s">>,
                    <<"m", "i", "d", "o", "t">>>>],
    [name |-> "Niddah", patterns |-> <<<<"n", "i", "d", "d", "a", "h">>>>]
>>

\* self.tractate_patterns of the organizer, in declared order
organizer_tractate_patterns == <<
    [name |-> "Berachos",
     patterns |-> <<<<"b", "e", "r", "a", "c", "h", "o", "s">>,
                    <<"b", "e", "r", "a", "k", "h", "o", "t">>,
                    <<"b", "r", "a", "c", "h", "o", "t">>>>],
    [name |-> "Shabbos",
     patterns |-> <<<<"s", "h", "a", "b", "b", "o", "s">>,
                    <<"s", "h", "a", "b", "b", "a", "t">>>>],
    [name |-> "Eruvin", patterns |-> <<<<"e", "r", "u", "v", "i", "n">>>>],
    [name |-> "Pesachim",
     patterns |-> <<<<"p", "e", "s", "a", "c", "h", "i", "m">>>>],
    [name |-> "Shekalim",
     patterns |-> <<<<"s", "h", "e", "k", "a", "l", "i", "m">>>>],
    [name |-> "Yoma", patterns |-> <<<<"y", "o", "m", "a">>>>],
    [name |-> "Sukkah", patterns |-> <<<<"s", "u", "k", "k", "a", "h">>>>],
    [name |-> "Beitzah",
     patterns |-> <<<<"b", "e", "i", "t", "z", "a", "h">>,
                    <<"b", "e", "i", "t", "z", "a">>>>],
    [name |-> "Rosh_Hashanah",
     patterns |-> <<<<"r", "o", "s", "h", " ", "h", "a", "s", "h", "a", "n", "a", "h">>,
                    <<"r", "o", "s", "h", "_", "h", "a", "s", "h", "a", "n", "a", "h">>>>],
    [name |-> "Taanis",
     patterns |-> <<<<"t", "a", "a", "n", "i", "s">>,
                    <<"t", "a", "a", "n", "i", "t">>>>],
    [name |-> "Megillah",
     patterns |-> <<<<"m", "e", "g", "i", "l", "l", "a", "h">>>>],
    [name |-> "Moed_Katan",
     patterns |-> <<<<"m", "o", "e", "d", " ", "k", "a", "t", "a", "n">>,
                    <<"m", "o", "e", "d", "_", "k", "a", "t", "a", "n">>>>],
    [name |-> "Chagigah",
     patterns |-> <<<<"c", "h", "a", "g", "i", "g", "a", "h">>>>],
    [name |-> "Yevamos",
     patterns |-> <<<<"y", "e", "v", "a", "m", "o", "s">>,
                    <<"y", "e", "v", "a", "m", "o", "t">>>>],
    [name |-> "Kesubos",
     patterns |-> <<<<"k", "e", "s", "u", "b", "o", "s">>,
                    <<"k", "e", "t", "u", "b", "b", "o", "t">>>>],
    [name |-> "Nedarim",
     patterns |-> <<<<"n", "e", "d", "a", "r", "i", "m">>>>],
    [name |-> "Nazir", patterns |-> <<<<"n", "a", "z", "i", "r">>>>],
    [name |-> "Sotah", patterns |-> <<<<"s", "o", "t", "a", "h">>>>],
    [name |-> "Gittin", patterns |-> <<<<"g", "i", "t", "t", "i", "n">>>>],
    [name |-> "Kiddushin",
     patterns |-> <<<<"k", "i", "d", "d", "u", "s", "h", "i", "n">>>>],
    [name |-> "Bava_Kamma",
     patterns |-> <<<<"b", "a", "v", "a", " ", "k", "a", "m", "m", "a">>,
                    <<"b", "a", "v", "a", "_", "k", "a", "m", "m", "a">>>>],
    [name |-> "Bava_Metzia",
     patterns |-> <<<<"b", "a", "v", "a", " ", "m", "e", "t", "z", "i", "a">>,
                    <<"b", "a", "v", "a", "_", "m", "e", "t", "z", "i", "a">>>>],
    [name |-> "Bava_Basra",
     patterns |-> <<<<"b", "a", "v", "a", " ", "b", "a", "s", "r", "a">>,
                    <<"b", "a", "v", "a", "_", "b", "a", "s", "r", "a">>>>],
    [name |-> "Sanhedrin",
     patterns |-> <<<<"s", "a", "n", "h", "e", "d", "r", "i", "n">>>>],
    [name |-> "Makkos",
     patterns |-> <<<<"m", "a", "k", "k", "o", "s">>,
                    <<"m", "a", "k", "k", "o", "t">>>>],
    [name |-> "Shevuos",
     patterns |-> <<<<"s", "h", "e", "v", "u", "o", "s">>,
                    <<"s", "h", "e", "v", "u", "o", "t">>>>],
    [name |-> "Avodah_Zarah",
     patterns |-> <<<<"a", "v", "o", "d", "a", "h", " ", "z", "a", "r", "a", "h">>,
                    <<"a", "v", "o", "d", "a", "h", "_", "z", "a", "r", "a", "h">>>>],
    [name |-> "Horayos",
     patterns |-> <<<<"h", "o", "r", "a", "y", "o", "s">>,
                    <<"h", "o", "r", "a", "y", "o", "t">>>>],
    [name |-> "Zevachim",
     patterns |-> <<<<"z", "e", "v", "a", "c", "h", "i", "m">>>>],
    [name |-> "Menachos",
     patterns |-> <<<<"m", "e", "n", "a", "c", "h", "o", "s">>,
                    <<"m", "e", "n", "a", "c", "h", "o", "t">>>>],
    [name |-> "Chullin",
     patterns |-> <<<<"c", "h", "u", "l", "l", "i", "n">>>>],
    [name |-> "Bechorot",
     patterns |-> <<<<"b", "e", "c", "h", "o", "r", "o", "t">>,
                    <<"b", "e", "c", "h", "o", "r", "o", "s">>>>],
    [name |-> "Arachin",
     patterns |-> <<<<"a", "r", "a", "c", "h", "i", "n">>>>],
    [name |-> "Temurah",
     patterns |-> <<<<"t", "e", "m", "u", "r", "a", "h">>>>],
    [name |-> "Kerisos",
     patterns |-> <<<<"k", "e", "r", "i", "s", "o", "s">>,
                    <<"k", "e", "r", "i", "t", "o", "t">>>>],
    [name |-> "Meilah", patterns |-> <<<<"m", "e", "i", "l", "a", "h">>>>],
    [name |-> "Kinnim", patterns |-> <<<<"k", "i", "n", "n", "i", "m">>>>],
    [name |-> "Tamid", patterns |-> <<<<"t", "a", "m", "i", "d">>>>],
    [name |-> "Midos",
     patterns |-> <<<<"m", "i", "d", "o", "s">>,
                    <<"m", "i", "d", "o", "t">>>>],
    [name |-> "Niddah", patterns |-> <<<<"n", "i", "d", "d", "a", "h">>>>]
>>

\* self.series_types of the organizer, in declared order
series_types == <<
    [name |-> "Daf_Yomi",
     patterns |-> <<<<"d", "a", "f", " ", "y", "o", "m", "i">>>>],
    [name |-> "Shiurim", patterns |-> <<<<"s", "h", "i", "u", "r">>>>],
    [name |-> "Lectures",
     patterns |-> <<<<"l", "e", "c", "t", "u", "r", "e">>>>],
    [name |-> "Special_Series",
     patterns |-> <<<<"s", "p", "e", "c", "i", "a", "l">>,
                    <<"e", "v", "e", "n", "t">>,
                    <<"a", "n", "n", "o", "u", "n", "c", "e", "m", "e", "n", "t">>>>],
    [name |-> "General", patterns |-> <<>>]
>>

\* str.lower() on one character
LowerChar(c) ==
    CASE c = "A" -> "a"
      [] c = "B" -> "b"
      [] c = "C" -> "c"
      [] c = "D" -> "d"
      [] c = "E" -> "e"
      [] c = "F" -> "f"
      [] c = "G" -> "g"
      [] c = "H" -> "h"
      [] c = "I" -> "i"
      [] c = "J" -> "j"
      [] c = "K" -> "k"
      [] c = "L" -> "l"
      [] c = "M" -> "m"
      [] c = "N" -> "n"
      [] c = "O" -> "o"
      [] c = "P" -> "p"
      [] c = "Q" -> "q"
      [] c = "R" -> "r"
      [] c = "S" -> "s"
      [] c = "T" -> "t"
      [] c = "U" -> "u"
      [] c = "V" -> "v"
      [] c = "W" -> "w"
      [] c = "X" -> "x"
      [] c = "Y" -> "y"
      [] c = "Z" -> "z"
      [] OTHER -> c

Lower(s) == [k \in 1..Len(s) |-> LowerChar(s[k])]

\* f"{title_lower} {description_lower}"
CombinedText(title, description) ==
    Lower(title) \o <<" ">> \o Lower(description)

\* Python's  pattern in text  on strings
Contains(text, pat) ==
    \E k \in 1..(Len(text) - Len(pat) + 1) :
        SubSeq(text, k, k + Len(pat) - 1) = pat

\* any(pattern in combined_text for pattern in patterns)
AnyPattern(patterns, text) ==
    \E j \in 1..Len(patterns) : Contains(text, patterns[j])

\* the for loop over a table: position of the first entry one of whose
\* patterns occurs in the text, scanning from position k; 0 when none does
RECURSIVE ScanTable(_, _, _)
ScanTable(table, text, k) ==
    IF k > Len(table) THEN 0
    ELSE IF AnyPattern(table[k].patterns, text) THEN k
    ELSE ScanTable(table, text, k + 1)

DafYomiPattern == <<"d", "a", "f", " ", "y", "o", "m", "i">>
ShiurPattern   == <<"s", "h", "i", "u", "r">>
LecturePattern == <<"l", "e", "c", "t", "u", "r", "e">>

\* ['special', 'event', 'announcement']
OverrideKeywords == <<
    <<"s", "p", "e", "c", "i", "a", "l">>,
    <<"e", "v", "e", "n", "t">>,
    <<"a", "n", "n", "o", "u", "n", "c", "e", "m", "e", "n", "t">>
>>

\* the if/elif chain on the series type inside the tractate loop
SeriesTypeChain(text) ==
    IF Contains(text, DafYomiPattern) THEN "Daf_Yomi"
    ELSE IF Contains(text, ShiurPattern) THEN "Shiurim"
    ELSE IF Contains(text, LecturePattern) THEN "Lectures"
    ELSE "General"

\* classify_video of the extractor: <<tractate, series_type>>
classify_video(title, description, tractate_patterns) ==
    LET combined_text == CombinedText(title, description)
        k == ScanTable(tractate_patterns, combined_text, 1)
    IN  IF k # 0
        THEN <<tractate_patterns[k].name, SeriesTypeChain(combined_text)>>
        ELSE IF Contains(combined_text, DafYomiPattern)
             THEN <<"Unclassified", "Daf_Yomi">>
        ELSE IF AnyPattern(OverrideKeywords, combined_text)
             THEN <<"Special_Series", "Events">>
        ELSE <<"Unclassified", "General">>

\* classify_content of the organizer: <<tractate, series_type>>.  An entry
\* of series_types with no patterns never matches.
classify_content(title, description, tractate_patterns, series) ==
    LET combined_text == CombinedText(title, description)
        k == ScanTable(tractate_patterns, combined_text, 1)
        j == ScanTable(series, combined_text, 1)
        tractate == IF k # 0 THEN tractate_patterns[k].name
                    ELSE "Unclassified"
        series_type == IF j # 0 THEN series[j].name ELSE "General"
    IN  IF AnyPattern(OverrideKeywords, combined_text)
        THEN <<"Special_Series", "Events">>
        ELSE <<tractate, series_type>>

(* ---- inputs ---- *)
\* longest title explored, in words
MaxTitleWords == 2
\* longest description explored, in words
MaxDescriptionWords == 1

\* words a title or a description is made of, as they are typed
Words == {
    <<"B", "e", "r", "a", "c", "h", "o", "s">>,
    <<"S", "h", "a", "b", "b", "a", "t">>,
    <<"D", "a", "f", " ", "Y", "o", "m", "i">>,
    <<"S", "h", "i", "u", "r", "i", "m">>,
    <<"L", "e", "c", "t", "u", "r", "e">>,
    <<"S", "p", "e", "c", "i", "a", "l">>,
    <<"E", "v", "e", "n", "t", "s">>
}

\* the words joined by single blanks
RECURSIVE JoinWords(_)
JoinWords(ws) ==
    IF ws = <<>> THEN <<>>
    ELSE IF Len(ws) = 1 THEN ws[1]
    ELSE ws[1] \o <<" ">> \o JoinWords(Tail(ws))

TextsUpTo(n) == {JoinWords(ws) : ws \in {<<>>} \cup SeqsUpTo(Words, n)}

\* a table with its first two entries exchanged
SwapFirstTwo(table) ==
    [k \in 1..Len(table) |->
        IF k = 1 THEN table[2] ELSE IF k = 2 THEN table[1] ELSE table[k]]

TableOrders == {"declared", "swapped"}

Ordered(table, order) ==
    IF order = "swapped" THEN SwapFirstTwo(table) ELSE table

ClassifyArgs ==
    [title : TextsUpTo(MaxTitleWords),
     description : TextsUpTo(MaxDescriptionWords),
     order : TableOrders]

ClassInit ==
    /\ NoRun
    /\ args \in ClassifyArgs
    /\ result = NoResult

\* self.classify_video(title, description)
ClassifyVideoCall ==
    /\ result = NoResult
    /\ result' = [fn |-> "classify_video",
                  value |-> classify_video(args.title, args.description,
                               Ordered(config_tractate_patterns, args.order))]
    /\ UNCHANGED <<args, runVars>>

\* self.classify_content(title, description)
ClassifyContentCall ==
    /\ result = NoResult
    /\ result' = [fn |-> "classify_content",
                  value |-> classify_content(args.title, args.description,
                               Ordered(organizer_tractate_patterns, args.order),
                               Ordered(series_types, args.order))]
    /\ UNCHANGED <<args, runVars>>

ClassNext ==
    \/ ClassifyVideoCall
    \/ ClassifyContentCall

ClassSpec == ClassInit /\ [][ClassNext]_vars

(* ========================== parse_duration ============================ *)
(* parse_duration of the extractor (the discovery tool has the same code) *)
(* on a duration string, a sequence of characters.                        *)
Digits == {"0", "1", "2", "5", "7"}

DigitValue(c) ==
    CASE c = "0" -> 0 [] c = "1" -> 1 [] c = "2" -> 2 [] c = "5" -> 5
      [] OTHER -> 7

\* int() of a string of digits
RECURSIVE IntOfDigits(_)
IntOfDigits(d) ==
    IF d = <<>> THEN 0
    ELSE 10 * IntOfDigits(SubSeq(d, 1, Len(d) - 1)) + DigitValue(d[Len(d)])

\* \d+ : the length of the longest run of digits of s that starts at p
RECURSIVE DigitRun(_, _)
DigitRun(s, p) ==
    IF p <= Len(s) /\ s[p] \in Digits THEN 1 + DigitRun(s, p + 1) ELSE 0

\* (?:(\d+)U)? at position p: the digits captured (empty when the group
\* takes no part in the match) and the position after the group
OptionalGroup(s, p, unit) ==
    LET n == DigitRun(s, p) IN
    IF n > 0 /\ p + n <= Len(s) /\ s[p + n] = unit
    THEN [digits |-> SubSeq(s, p, p + n - 1), next |-> p + n + 1]
    ELSE [digits |-> <<>>, next |-> p]

\* re.match(r'PT(?:(\d+)H)?(?:(\d+)M)?(?:(\d+)S)?', s): the match starts at
\* the first character and need not reach the last
ReMatch(s) ==
    IF Len(s) >= 2 /\ s[1] = "P" /\ s[2] = "T"
    THEN LET h == OptionalGroup(s, 3, "H")
             m == OptionalGroup(s, h.next, "M")
             sec == OptionalGroup(s, m.next, "S")
         IN  [match |-> TRUE, groups |-> <<h.digits, m.digits, sec.digits>>]
    ELSE [match |-> FALSE, groups |-> <<<<>>, <<>>, <<>>>>]

\* int(match.group(k) or 0)
GroupValue(d) == IF d = <<>> THEN 0 ELSE IntOfDigits(d)

parse_duration(duration_str) ==
    LET match == ReMatch(duration_str) IN
    IF ~match.match THEN 0
    ELSE GroupValue(match.groups[1]) * 3600
         + GroupValue(match.groups[2]) * 60
         + GroupValue(match.groups[3])

(* ---- inputs ---- *)
\* largest number of digits-and-unit pieces in a duration string explored
MaxPieces == 3

DigitStrings == {<<"0">>, <<"5">>, <<"1", "2">>, <<"0", "7">>}

Units == {"H", "M", "S"}

\* digits followed by a unit letter
Pieces == {d \o <<u>> : d \in DigitStrings, u \in Units}

RECURSIVE Concat(_)
Concat(ps) == IF ps = <<>> THEN <<>> ELSE Head(ps) \o Concat(Tail(ps))

\* what a duration string starts with and ends with
Prefixes == {<<"P", "T">>, <<"P">>, <<"T">>, <<>>, <<"p", "t">>,
             <<"x", "P", "T">>}
Suffixes == {<<>>, <<"x">>, <<"5">>}

\* the pieces in any order, with repeats, between a prefix and a suffix
DurationStrings ==
    {pre \o Concat(ps) \o suf :
        pre \in Prefixes,
        ps \in {<<>>} \cup SeqsUpTo(Pieces, MaxPieces),
        suf \in Suffixes}

DurationInit ==
    /\ NoRun
    /\ args \in [duration_str : DurationStrings]
    /\ result = NoResult

\* self.parse_duration(duration_str) of the extractor
ParseDurationCall ==
    /\ result = NoResult
    /\ result' = [fn |-> "parse_duration",
                  value |-> parse_duration(args.duration_str)]
    /\ UNCHANGED <<args, runVars>>

\* self.parse_duration(v['duration']) of the discovery tool
DiscoveryParseDurationCall ==
    /\ result = NoResult
    /\ result' = [fn |-> "discovery.parse_duration",
                  value |-> parse_duration(args.duration_str)]
    /\ UNCHANGED <<args, runVars>>

DurationNext ==
    \/ ParseDurationCall
    \/ DiscoveryParseDurationCall

DurationSpec == DurationInit /\ [][DurationNext]_vars

(* ========================= extract_video_id =========================== *)
(* extract_video_id of the extractor (regular expressions, lines 133-146) *)
(* and extract_video_id of youtube_transcript_extractor.py (urlparse,     *)
(* lines 11-23).  A URL is the sequence of its lexical units: the         *)
(* separators / ? & = # [ one by one, and the pieces of text between      *)
(* them; no pattern matches inside a unit.                                *)

\* what a call returns: an identifier, None, or the exception it raises
IdResult(units) == [kind |-> "id", id |-> units]
NoneResult      == [kind |-> "None", id |-> <<>>]
Raises(exc)     == [kind |-> exc, id |-> <<>>]

\* [^&\n?#]
InIdClass(u) == u \notin {"&", "?", "#"}

\* [^&\n?#]+ at position p: the length of the longest run
RECURSIVE IdRun(_, _)
IdRun(s, p) ==
    IF p <= Len(s) /\ InIdClass(s[p]) THEN 1 + IdRun(s, p + 1) ELSE 0

\* the literal lit occurs in s at position p
LiteralAt(s, p, lit) ==
    /\ p + Len(lit) - 1 <= Len(s)
    /\ SubSeq(s, p, p + Len(lit) - 1) = lit

\* youtube\.com\/watch\?v= | youtu\.be\/ | youtube\.com\/embed\/
FirstPatternLiterals == {
    <<"youtube.com", "/", "watch", "?", "v", "=">>,
    <<"youtu.be", "/">>,
    <<"youtube.com", "/", "embed", "/">>
}

\* youtube\.com\/v\/
SecondPatternLiterals == {<<"youtube.com", "/", "v", "/">>}

\* youtube\.com\/watch\?  (followed by .*v= in the third pattern)
WatchLiteral == <<"youtube.com", "/", "watch", "?">>

\* positions at which one of the literals, followed by an identifier,
\* occurs in s
LiteralMatches(s, lits) ==
    {p \in 1..Len(s) :
        \E lit \in lits : LiteralAt(s, p, lit) /\ IdRun(s, p + Len(lit)) >= 1}

\* positions of a  v=  followed by an identifier, after position p
VEquals(s, p) ==
    {q \in (p + 1)..Len(s) :
        LiteralAt(s, q, <<"v", "=">>) /\ IdRun(s, q + 2) >= 1}

\* positions at which the third pattern matches
WatchMatches(s) ==
    {p \in 1..Len(s) :
        LiteralAt(s, p, WatchLiteral) /\ VEquals(s, p + 3) # {}}

Leftmost(S) == CHOOSE p \in S : \A q \in S : p <= q
Rightmost(S) == CHOOSE p \in S : \A q \in S : q <= p

\* match.group(1) of re.search for the first or the second pattern
GroupAfterLiteral(s, lits) ==
    LET p == Leftmost(LiteralMatches(s, lits))
        lit == CHOOSE l \in lits : LiteralAt(s, p, l)
        q == p + Len(lit)
    IN  SubSeq(s, q, q + IdRun(s, q) - 1)

\* match.group(1) of re.search for the third pattern: .* is greedy, so the
\* last  v=  that an identifier follows is taken
GroupAfterWatch(s) ==
    LET p == Leftmost(WatchMatches(s))
        q == Rightmost(VEquals(s, p + 3)) + 2
    IN  SubSeq(s, q, q + IdRun(s, q) - 1)

\* MercazDafYomiExtractor.extract_video_id
extract_video_id(url) ==
    IF LiteralMatches(url, FirstPatternLiterals) # {}
    THEN IdResult(GroupAfterLiteral(url, FirstPatternLiterals))
    ELSE IF LiteralMatches(url, SecondPatternLiterals) # {}
    THEN IdResult(GroupAfterLiteral(url, SecondPatternLiterals))
    ELSE IF WatchMatches(url) # {}
    THEN IdResult(GroupAfterWatch(url))
    ELSE NoneResult

(* ---- urlparse and parse_qs ---- *)
\* position of the first unit of s that is in the set, Len(s) + 1 if none
RECURSIVE FirstIn(_, _, _)
FirstIn(s, set, p) ==
    IF p > Len(s) THEN p
    ELSE IF s[p] \in set THEN p
    ELSE FirstIn(s, set, p + 1)

\* str.split(sep)
RECURSIVE Split(_, _)
Split(s, sep) ==
    LET p == FirstIn(s, {sep}, 1) IN
    IF p > Len(s) THEN <<s>>
    ELSE <<SubSeq(s, 1, p - 1)>> \o Split(SubSeq(s, p + 1, Len(s)), sep)

SchemeUnit == "https://"

\* urlparse(url): netloc, path, query, fragment.  A netloc is read only
\* after  scheme://  ; the fragment is cut at the first #, then the query
\* at the first ?
UrlParse(url) ==
    LET hasNetloc == url # <<>> /\ url[1] = SchemeUnit
        rest == IF hasNetloc THEN Tail(url) ELSE url
        n == IF hasNetloc THEN FirstIn(rest, {"/", "?", "#"}, 1) - 1 ELSE 0
        afterNetloc == SubSeq(rest, n + 1, Len(rest))
        f == FirstIn(afterNetloc, {"#"}, 1)
        beforeFragment == SubSeq(afterNetloc, 1, f - 1)
        q == FirstIn(beforeFragment, {"?"}, 1)
    IN  [netloc |-> SubSeq(rest, 1, n),
         path |-> SubSeq(beforeFragment, 1, q - 1),
         query |-> SubSeq(beforeFragment, q + 1, Len(beforeFragment)),
         fragment |-> SubSeq(afterNetloc, f + 1, Len(afterNetloc))]

\* urlparse raises ValueError('Invalid IPv6 URL') for a netloc with one
\* bracket only
UrlParseRaises(url) ==
    LET netloc == UrlParse(url).netloc IN
    ("[" \in Range(netloc)) # ("]" \in Range(netloc))

\* the fields  key=value  of a query with a non-blank value, in order
\* (parse_qs drops fields without '=' and fields with a blank value)
RECURSIVE KeptFields(_)
KeptFields(fields) ==
    IF fields = <<>> THEN <<>>
    ELSE LET fld == Head(fields)
             e == FirstIn(fld, {"="}, 1)
         IN  IF e < Len(fld)
             THEN <<[key |-> SubSeq(fld, 1, e - 1),
                     value |-> SubSeq(fld, e + 1, Len(fld))]>>
                  \o KeptFields(Tail(fields))
             ELSE KeptFields(Tail(fields))

ParseQs(query) ==
    IF query = <<>> THEN <<>> ELSE KeptFields(Split(query, "&"))

\* parse_qs(query)['v'][0]
FirstV(query) ==
    LET kept == ParseQs(query)
        hits == {k \in 1..Len(kept) : kept[k].key = <<"v">>}
    IN  IF hits = {} THEN Raises("KeyError")
        ELSE IdResult(kept[Leftmost(hits)].value)

\* extract_video_id of youtube_transcript_extractor.py
script_extract_video_id(url) ==
    IF UrlParseRaises(url) THEN Raises("ValueError")
    ELSE
    LET parsed_url == UrlParse(url) IN
    IF parsed_url.netloc = <<"youtu.be">>
    THEN IdResult(IF parsed_url.path = <<>> THEN <<>>
                  ELSE Tail(parsed_url.path))
    ELSE IF parsed_url.netloc \in {<<"www.", "youtube.com">>, <<"youtube.com">>}
    THEN IF parsed_url.path = <<"/", "watch">>
         THEN FirstV(parsed_url.query)
         ELSE IF LiteralAt(parsed_url.path, 1, <<"/", "embed", "/">>)
         THEN IdResult(Split(parsed_url.path, "/")[3])
         ELSE NoneResult
    ELSE NoneResult

(* ---- inputs ---- *)
\* largest number of query parameters of a URL explored
MaxParams == 2

\* the identifier the URLs embed
VideoIdUnit == "abc123"

UrlSchemes == {<<SchemeUnit>>, <<>>}

UrlHosts == {
    <<"youtu.be">>, <<"youtube.com">>, <<"www.", "youtube.com">>,
    <<"m.", "youtube.com">>, <<"not", "youtube.com">>, <<"example.com">>,
    <<"[", "example.com">>
}

UrlPaths == {
    <<>>, <<"/">>, <<"/", "watch">>,
    <<"/", "embed", "/", VideoIdUnit>>, <<"/", "embed", "/">>,
    <<"/", "v", "/", VideoIdUnit>>, <<"/", "channel", "/", VideoIdUnit>>,
    <<"/", VideoIdUnit>>, <<"/", VideoIdUnit, "/">>
}

UrlParams == {
    <<"v", "=", VideoIdUnit>>, <<"v", "=">>, <<"list", "=", "PL1">>,
    <<"re", "v", "=", VideoIdUnit>>, <<"t", "=", "10">>
}

\* ?p1&p2...
RECURSIVE JoinParams(_)
JoinParams(ps) ==
    IF Len(ps) = 1 THEN ps[1]
    ELSE ps[1] \o <<"&">> \o JoinParams(Tail(ps))

UrlQueries ==
    {<<>>} \cup {<<"?">> \o JoinParams(ps) : ps \in SeqsUpTo(UrlParams, MaxParams)}

UrlFragments == {<<>>, <<"#", "top">>}

Urls ==
    {sch \o h \o pth \o qry \o frg :
        sch \in UrlSchemes, h \in UrlHosts, pth \in UrlPaths,
        qry \in UrlQueries, frg \in UrlFragments}

UrlInit ==
    /\ NoRun
    /\ args \in [url : Urls]
    /\ result = NoResult

\* self.extract_video_id(url) of the extractor
ExtractVideoIdCall ==
    /\ result = NoResult
    /\ result' = [fn |-> "extract_video_id",
                  value |-> extract_video_id(args.url)]
    /\ UNCHANGED <<args, runVars>>

\* extract_video_id(url) of youtube_transcript_extractor.py
ScriptExtractVideoIdCall ==
    /\ result = NoResult
    /\ result' = [fn |-> "script.extract_video_id",
                  value |-> script_extract_video_id(args.url)]
    /\ UNCHANGED <<args, runVars>>

UrlNext ==
    \/ ExtractVideoIdCall
    \/ ScriptExtractVideoIdCall

UrlSpec == UrlInit /\ [][UrlNext]_vars

(* ================= extract_transcript: the selection ================== *)
(* extract_transcript (lines 322-391) on what list_transcripts gives for  *)
(* the item: an exception, or the transcripts of the item in the order    *)
(* the list yields them, manually created ones before generated ones.     *)

\* variant: Hebrew is preferred
language_priorities_HebrewFirst == <<"he", "iw", "en", "en-US", "en-GB">>

\* language_priorities = ['en', 'en-US', 'en-GB', 'he', 'iw']
language_priorities == <<"en", "en-US", "en-GB", "he", "iw">>

\* transcript_list.find_transcript([lang]): the position of the manually
\* created transcript of that language, else of the generated one; 0 when
\* there is neither (NoTranscriptFound is raised)
FindTranscript(transcript_list, lang) ==
    LET manual == {k \in 1..Len(transcript_list) :
                      /\ transcript_list[k].language_code = lang
                      /\ ~transcript_list[k].is_generated}
        generated == {k \in 1..Len(transcript_list) :
                         /\ transcript_list[k].language_code = lang
                         /\ transcript_list[k].is_generated}
    IN  IF manual # {} THEN CHOOSE k \in manual : \A j \in manual : k <= j
        ELSE IF generated # {}
        THEN CHOOSE k \in generated : \A j \in generated : k <= j
        ELSE 0

\* for lang in language_priorities: try find_transcript, break on the
\* first that is found; from position k of the list on
RECURSIVE PreferredTranscript(_, _)
PreferredTranscript(transcript_list, k) ==
    IF k > Len(language_priorities) THEN [transcript |-> 0, language |-> "None"]
    ELSE IF FindTranscript(transcript_list, language_priorities[k]) # 0
    THEN [transcript |-> FindTranscript(transcript_list, language_priorities[k]),
          language |-> language_priorities[k]]
    ELSE PreferredTranscript(transcript_list, k + 1)

\* if not transcript: the first of list(transcript_list), if any
SelectTranscript(transcript_list) ==
    LET preferred == PreferredTranscript(transcript_list, 1) IN
    IF preferred.transcript # 0 THEN preferred
    ELSE IF transcript_list # <<>>
    THEN [transcript |-> 1, language |-> transcript_list[1].language_code]
    ELSE [transcript |-> 0, language |-> "None"]

\* what transcript.fetch() does
FetchOutcomes == {"text", "blank", "empty", "raise"}

\* extract_transcript: the transcript selected (0: none), result['language'],
\* result['success'], result['error'] and whether the text is non-empty
extract_transcript(listing, fetch) ==
    IF listing.raises
    THEN [transcript |-> 0, language |-> "None", success |-> FALSE,
          text |-> FALSE, error |-> "exception"]
    ELSE LET sel == SelectTranscript(listing.transcripts) IN
         IF sel.transcript = 0
         THEN [transcript |-> 0, language |-> "None", success |-> FALSE,
               text |-> FALSE, error |-> "No transcripts available"]
         ELSE IF fetch = "raise"
         THEN [transcript |-> sel.transcript, language |-> sel.language,
               success |-> FALSE, text |-> FALSE, error |-> "exception"]
         ELSE IF fetch = "empty"
         THEN [transcript |-> sel.transcript, language |-> sel.language,
               success |-> FALSE, text |-> FALSE,
               error |-> "Empty transcript data"]
         ELSE [transcript |-> sel.transcript, language |-> sel.language,
               success |-> TRUE, text |-> fetch = "text", error |-> "None"]

(* ---- inputs ---- *)
\* largest number of transcripts of an item explored
MaxTranscripts == 2

LanguageCodes == {"en", "en-US", "en-GB", "he", "iw", "fr", "es"}

Transcripts == [language_code : LanguageCodes, is_generated : BOOLEAN]

\* list(transcript_list) yields the manually created transcripts first
ManualFirst(s) ==
    \A j, k \in 1..Len(s) : (j < k /\ s[j].is_generated) => s[k].is_generated

TranscriptLists ==
    {s \in {<<>>} \cup SeqsUpTo(Transcripts, MaxTranscripts) : ManualFirst(s)}

Listings ==
    {[raises |-> TRUE, transcripts |-> <<>>]}
    \cup {[raises |-> FALSE, transcripts |-> s] : s \in TranscriptLists}

SelectInit ==
    /\ NoRun
    /\ args \in [listing : Listings, fetch : FetchOutcomes]
    /\ result = NoResult

\* self.extract_transcript(video_id), one attempt
ExtractTranscriptCall ==
    /\ result = NoResult
    /\ result' = [fn |-> "extract_transcript",
                  value |-> extract_transcript(args.listing, args.fetch)]
    /\ UNCHANGED <<args, runVars>>

SelectNext == ExtractTranscriptCall

SelectSpec == SelectInit /\ [][SelectNext]_vars

(* =================== re-running after a crash ========================= *)
(* One run that may be killed at any point, then the command is run with  *)
(* resume (the default of main) as often as it takes.  After the crash    *)
(* nothing else goes wrong: the listing is served and the files can be    *)
(* written.  Here runs is 1 during the first run and MaxRuns afterwards.  *)

FirstRun == runs = 0 /\ \E r \in BOOLEAN : StartRun(r)

FirstCrash == runs = 1 /\ Crash

\* main without --no-resume, after a run that did not finalize
ResumedRun ==
    /\ pc \in {"crashed", "errored", "returned"}
    /\ runs' = MaxRuns
    /\ Launch(TRUE)

\* the steps of a run in which no file operation and no listing fails
RunStep ==
    \/ GetChannelVideos /\ all_videos' = channel
    \/ BatchLoopEnd
    \/ SkipBatchStep
    \/ StartBatch
    \/ BatchItemsDone
    \/ SkipVideo
    \/ BeginVideo
    \/ GetVideoMetadata
    \/ RetryLoopEnd
    \/ ExtractAttempt
    \/ Backoff
    \/ PersistSuccess
    \/ RecordFailure
    \/ RateLimit
    \/ SaveProgress /\ faults' = faults
    \/ GenerateReports
    \/ ReportsDivideByZero
    \/ Finalize

ResumeNext ==
    \/ FirstRun
    \/ FirstCrash
    \/ ResumedRun
    \/ RunStep

\* a started process keeps running, and the operator runs the command
\* again whenever a run ended without finalizing
ResumeSpec ==
    Init /\ [][ResumeNext]_vars /\ WF_vars(FirstRun \/ ResumedRun \/ RunStep)

(* ======================= claims C21 to C30 ============================ *)
\* outcome records made by the run so far
OutcomeRecords == Len(all_results) + Len(batch_results) + Len(failed_videos)

\* the item that entered last has no outcome yet
OutcomePending == pc \in {"metadata", "extract", "backoff", "result"}

(* C21: each entry of an item into the item state machine yields exactly  *)
(* one outcome record in the run, a success row or a failure-list entry,  *)
(* never both and never neither, however many extraction attempts it      *)
(* took: when the item reaches the rate-limit delay it has made one       *)
(* record, and at every moment the records of the run are as many as the  *)
(* entries, less the one entry still under way.                           *)
C21_OneOutcomePerItem ==
    /\ pc = "rate_limit" => cur.succRecs + cur.failRecs = 1
    /\ OutcomePending => cur.succRecs + cur.failRecs = 0
    /\ OutcomeRecords = Len(entered) - (IF OutcomePending THEN 1 ELSE 0)

C21_Witness ==
    /\ pc = "rate_limit"
    /\ cur.attempts = 2
    /\ cur.failRecs = 1
    /\ Len(entered) = 2
    /\ Len(batch_results) = 1
    /\ Len(failed_videos) = 1

(* C22: no identifier occurs more than once in the completed set, in the  *)
(* progress dict of the run and in the progress file, also when the       *)
(* listing shows the same identifier more than once and in resumed runs.  *)
C22_CompletedHasNoRepeats ==
    /\ NoRepeats(progress.completed_videos)
    /\ disk.kind = "file" => NoRepeats(disk.data.completed_videos)

\* a listing shows one id twice; the second showing is passed over
C22_Witness ==
    /\ pc = "report"
    /\ Len(all_videos) = 2
    /\ all_videos[1] = all_videos[2]
    /\ entered = <<all_videos[1]>>
    /\ progress.completed_videos = <<all_videos[1]>>
    /\ disk.kind = "file"
    /\ disk.data.completed_videos = <<all_videos[1]>>

(* C23: an item whose outcome is Failure has no output artifact written   *)
(* for it in the run, not even a partial one.                             *)
C23_FailureLeavesNoArtifact ==
    (pc = "rate_limit" /\ cur.failRecs > 0) => cur.artifact = "none"

(* C24: between extraction attempt a and attempt a+1 of an item (a from   *)
(* 0) the worker waits 2^a seconds; there is no wait before the first     *)
(* attempt, after the last permitted attempt or after a successful        *)
(* attempt.  cur.waits lists the waits of the item in order.              *)
C24_ExponentialBackoff ==
    /\ \A k \in 1..Len(cur.waits) : cur.waits[k] = 2 ^ (k - 1)
    /\ pc = "metadata" => cur.waits = <<>>
    /\ pc = "extract"
         => /\ cur.attempts = attempt
            /\ Len(cur.waits) = Min(attempt, config.max_retries - 1)
    /\ pc = "backoff"
         => /\ ~cur.anySuccess
            /\ cur.attempts < config.max_retries
            /\ Len(cur.waits) = cur.attempts - 1
    /\ pc \in {"result", "rate_limit"} => Len(cur.waits) = cur.attempts - 1

\* four failed attempts with the waits 1, 2 and 4 between them
C24_Witness ==
    /\ pc = "result"
    /\ config.max_retries = 4
    /\ cur.attempts = 4
    /\ ~cur.anySuccess
    /\ cur.waits = <<1, 2, 4>>

(* C25: after every item that enters the item state machine the rate-     *)
(* limit delay is applied exactly once before the next item starts or the *)
(* batch ends, whatever the outcome: no delay while the item is under     *)
(* way, and one delay behind it when the loop is back at its head.        *)
C25_RateLimitOncePerItem ==
    /\ (OutcomePending \/ pc = "rate_limit") => cur.delays = 0
    /\ (pc = "video" /\ batchLog # <<>>)
         => /\ cur.id = batchLog[Len(batchLog)].id
            /\ cur.delays = 1

\* the delay after an item whose transcript file could not be written
C25_Witness ==
    /\ pc = "video"
    /\ batchLog # <<>>
    /\ batchLog[Len(batchLog)].outcome = "failure"
    /\ InList(cur.id, failed_videos)
    /\ ~InList(cur.id, progress.failed_videos)
    /\ cur.delays = 1

\* number of items of the current batch that have entered or been passed
\* over so far
ItemsBegun == IF pc \in {"video", "save_progress"} THEN idx - 1 ELSE idx

(* C26: the remaining items are split in listing order into consecutive   *)
(* disjoint batches of exactly batch_size items, except possibly the      *)
(* last; within a run the batches are processed in ascending order, each  *)
(* once, and the items of a batch in list order.  While a batch is being  *)
(* processed it is the stretch of remaining_videos at offset i, its       *)
(* number is one more than the batches passed over and processed before   *)
(* it, and the current item is the one at position idx; for a listing     *)
(* that shows every id once the items that entered so far are the items   *)
(* of the processed batches, in listing order, each once.                 *)
C26_BatchesInOrder ==
    /\ pc \in ItemPcs \cup {"save_progress"}
         => /\ i % config.batch_size = 0
            /\ i < Len(remaining_videos)
            /\ batch_num = (i \div config.batch_size) + 1
            /\ batch_num = SkippedBatches + Len(saves) + 1
            /\ Len(batch_videos)
                 = Min(config.batch_size, Len(remaining_videos) - i)
            /\ \A k \in 1..Len(batch_videos) :
                 batch_videos[k] = remaining_videos[i + k]
    /\ (OutcomePending \/ pc = "rate_limit")
         => /\ idx \in 1..Len(batch_videos)
            /\ cur.id = batch_videos[idx]
            /\ entered[Len(entered)] = cur.id
    /\ (pc \in ItemPcs \cup {"save_progress"} /\ NoRepeats(all_videos))
         => entered = SubSeq(remaining_videos,
                             SkippedBatches * config.batch_size + 1,
                             i + ItemsBegun)
    /\ (pc \in AfterLoopPcs \cup {"batch_loop"} /\ NoRepeats(all_videos))
         => entered = SubSeq(remaining_videos,
                             SkippedBatches * config.batch_size + 1,
                             Min(i, Len(remaining_videos)))

\* three items in two batches of two and one
C26_Witness ==
    /\ pc = "report"
    /\ config.batch_size = 2
    /\ Len(remaining_videos) = 3
    /\ NoRepeats(all_videos)
    /\ Len(saves) = 2
    /\ entered = remaining_videos

(* ---- classifier claims ---- *)
\* the search text of the call
SearchText == CombinedText(args.title, args.description)

\* one of the two classifiers has returned
Classified == result # NoResult /\ result.fn \in {"classify_video", "classify_content"}

HasOverrideKeyword ==
    \E j \in 1..Len(OverrideKeywords) : Contains(SearchText, OverrideKeywords[j])

\* positions of the entries of a table that have a pattern in the text
Matches(table, text) ==
    {k \in 1..Len(table) :
        \E j \in 1..Len(table[k].patterns) : Contains(text, table[k].patterns[j])}

Least(S) == CHOOSE k \in S : \A j \in S : k <= j

\* the table each classifier scans for the category, in the order of the call
CategoryTable ==
    IF result.fn = "classify_video"
    THEN Ordered(config_tractate_patterns, args.order)
    ELSE Ordered(organizer_tractate_patterns, args.order)

\* the subcategories in the order each classifier tests them: the table of
\* the organizer in the order of the call, the fixed if/elif chain of the
\* extractor
SubcategoryTable ==
    IF result.fn = "classify_video" THEN series_types
    ELSE Ordered(series_types, args.order)

(* C27: first match wins.  For a text without override keywords that has  *)
(* patterns of two or more categories the category returned is the one    *)
(* declared first in the table, and likewise for the subcategories.       *)
C27_FirstMatchWins ==
    (Classified /\ ~HasOverrideKeyword)
        => /\ Cardinality(Matches(CategoryTable, SearchText)) >= 2
                => result.value[1]
                    = CategoryTable[Least(Matches(CategoryTable, SearchText))].name
           /\ Cardinality(Matches(SubcategoryTable, SearchText)) >= 2
                => result.value[2]
                    = SubcategoryTable[Least(Matches(SubcategoryTable, SearchText))].name

(* C28: whenever the title or the description contains an override        *)
(* keyword (special, event, announcement) the classifier returns          *)
(* (Special_Series, Events), whatever else the text matches.              *)
C28_OverrideKeywordsWin ==
    (Classified /\ HasOverrideKeyword)
        => result.value = <<"Special_Series", "Events">>

(* C29: for a text without override keywords the subcategory is the first *)
(* of Daf_Yomi, Shiurim, Lectures whose pattern occurs in the text, else  *)
(* General, whether or not a category pattern matched.                    *)
C29_SubcategoryScanIndependent ==
    (Classified /\ ~HasOverrideKeyword /\ args.order = "declared")
        => result.value[2]
            = (IF Matches(series_types, SearchText) = {} THEN "General"
               ELSE series_types[Least(Matches(series_types, SearchText))].name)

(* ---- duration claim ---- *)
\* a component of a token: absent, or digits and the unit letter
Component(d, unit) == IF d = <<>> THEN <<>> ELSE d \o <<unit>>

\* the token 'PT' with the given hour, minute and second digits (empty
\* digits: the component is absent)
Token(h, m, sec) ==
    <<"P", "T">> \o Component(h, "H") \o Component(m, "M")
                 \o Component(sec, "S")

OptionalDigits == DigitStrings \cup {<<>>}

IsToken(str) ==
    \E h, m, sec \in OptionalDigits : str = Token(h, m, sec)

DurationParsed ==
    result # NoResult
    /\ result.fn \in {"parse_duration", "discovery.parse_duration"}

(* C30: parse_duration is total; for every token 'PT' followed by any     *)
(* subset of the hour, minute and second components it returns            *)
(* H*3600 + M*60 + S with an absent component counted as 0, and for every *)
(* string that is no such token it returns 0.                             *)
C30_ParseDurationTotal ==
    DurationParsed
        => /\ result.value \in Nat
           /\ \A h, m, sec \in OptionalDigits :
                args.duration_str = Token(h, m, sec)
                    => result.value = IntOfDigits(h) * 3600
                                      + IntOfDigits(m) * 60 + IntOfDigits(sec)
           /\ ~IsToken(args.duration_str) => result.value = 0

(* ======================= claims C31 to C40 ============================ *)
(* ---- identifier claims ---- *)
\* one of the two extract_video_id functions has returned or raised
IdExtracted ==
    result # NoResult
    /\ result.fn \in {"extract_video_id", "script.extract_video_id"}

\* the three URL shapes that embed the identifier
ShortLinkUrl == <<SchemeUnit, "youtu.be", "/", VideoIdUnit>>
WatchUrl ==
    <<SchemeUnit, "www.", "youtube.com", "/", "watch", "?", "v", "=",
      VideoIdUnit>>
EmbedUrl ==
    <<SchemeUnit, "www.", "youtube.com", "/", "embed", "/", VideoIdUnit>>

\* the literal occurs somewhere in the URL
Occurs(url, lit) == \E p \in 1..Len(url) : LiteralAt(url, p, lit)

\* the URL has the mark of one of the three shapes anywhere in it, with
\* or without an identifier
HasShapeMark(url) ==
    \/ Occurs(url, <<"youtu.be", "/">>)
    \/ Occurs(url, <<"youtube.com", "/", "watch">>)
    \/ Occurs(url, <<"youtube.com", "/", "embed", "/">>)

\* the call gave an identifier (a non-empty one)
GaveIdentifier == result.value.kind = "id" /\ result.value.id # <<>>

(* C31: extract_video_id returns the embedded identifier for each of the  *)
(* three URL shapes (short link, canonical watch, embed) that embed the   *)
(* same id, and gives no identifier for a URL of none of these shapes     *)
(* (whether a call may raise instead of returning None is C32).           *)
C31_IdForThreeShapes ==
    IdExtracted
        => /\ args.url \in {ShortLinkUrl, WatchUrl, EmbedUrl}
                => result.value = IdResult(<<VideoIdUnit>>)
           /\ ~HasShapeMark(args.url) => ~GaveIdentifier

(* C32: extract_video_id never raises on a malformed URL string: for      *)
(* every input string, a watch URL without the identifier parameter       *)
(* included, it returns an identifier or None.                            *)
C32_NeverRaises ==
    IdExtracted => result.value.kind \in {"id", "None"}

(* ---- language claim ---- *)
\* the languages the item has a transcript in
AvailableLanguages ==
    {args.listing.transcripts[k].language_code :
        k \in 1..Len(args.listing.transcripts)}

\* the priority list as the claim gives it
ClaimedPriorities == <<"en", "en-US", "en-GB", "he", "iw">>

\* positions of the claimed list whose language the item has
AvailablePriorities ==
    {k \in 1..Len(ClaimedPriorities) : ClaimedPriorities[k] \in AvailableLanguages}

AttemptMade ==
    result # NoResult /\ result.fn = "extract_transcript"
    /\ ~args.listing.raises

(* C33: an extraction attempt selects the transcript of the first         *)
(* language of [en, en-US, en-GB, he, iw] that is available for the item; *)
(* if none of these is available, the first available transcript of any   *)
(* language; if the item has no transcript at all the attempt fails with  *)
(* 'No transcripts available'.                                            *)
C33_LanguagePriority ==
    AttemptMade
        => /\ AvailablePriorities # {}
                => /\ result.value.language
                        = ClaimedPriorities[Least(AvailablePriorities)]
                   /\ result.value.transcript # 0
                   /\ args.listing.transcripts[result.value.transcript].language_code
                        = result.value.language
           /\ (AvailablePriorities = {} /\ args.listing.transcripts # <<>>)
                => /\ result.value.transcript = 1
                   /\ result.value.language
                        = args.listing.transcripts[1].language_code
           /\ args.listing.transcripts = <<>>
                => /\ ~result.value.success
                   /\ result.value.transcript = 0
                   /\ result.value.error = "No transcripts available"

\* Hebrew and British English are available: British English is taken
C33_Witness ==
    /\ AttemptMade
    /\ AvailableLanguages = {"he", "en-GB"}
    /\ args.listing.transcripts[1].language_code = "he"
    /\ result.value.language = "en-GB"
    /\ result.value.transcript = 2


(* C34: a run with --no-resume ignores previous progress: whatever the    *)
(* progress file holds, the first batch that runs is batch 1, and once    *)
(* the batch loop is through every batch has run and every enumerated id  *)
(* has entered the item state machine.                                    *)
C34_NoResumeIgnoresProgress ==
    ~resume
        => /\ progress.start_time = "set"
           /\ pc \in ItemPcs \cup {"save_progress"} => firstBatch = 1
           /\ pc \in AfterLoopPcs
                => /\ Len(saves) = NumBatches
                   /\ Processed = Range(all_videos)

\* the progress file left by the earlier run still says that batch 1 is
\* done and the item completed, and the item has entered all the same
C34_Witness ==
    /\ ~resume
    /\ pc = "extract"
    /\ batch_num = 1
    /\ disk.kind = "file"
    /\ disk.data.last_batch >= 1
    /\ InList(cur.id, disk.data.completed_videos)
    /\ saves = <<>>


\* every enumerated id is in the completed or in the failed set
AllTerminal ==
    Range(all_videos) \subseteq
        (Range(progress.completed_videos) \cup Range(progress.failed_videos))

\* a run has got through every item and finalized the progress store
RunComplete == pc = "finished" /\ all_videos = channel /\ AllTerminal

(* C35: liveness of resume.  After a crash at any point, when the command *)
(* is run again with resume and nothing crashes any more, some run        *)
(* eventually has every enumerated item in a terminal state and           *)
(* finalizes the progress store.                                          *)
C35_ResumeLiveness == (pc = "crashed") ~> RunComplete


(* C36: no result is lost across a restart.  When a resumed run           *)
(* completes, the master catalog has a row for every id of the completed  *)
(* set, the ids completed by the interrupted earlier run included.        *)
C36_CatalogCoversCompleted ==
    (resume /\ pc \in {"finalize", "finished"} /\ catalog.kind = "written")
        => Range(progress.completed_videos) \subseteq ResultIds(catalog.rows)


\* what load_progress returns from the progress file as it is now
Durable == LoadProgress(disk)

(* C37: durable progress is monotonic in resume mode.  Until the store is *)
(* finalized, no step of a run with resume (a save, a crash, a crash      *)
(* during a save, the start of the next run) makes load_progress lose an  *)
(* id of the completed set or return a smaller last-batch index.          *)
C37_DurableMonotonic ==
    [][(resume /\ resume' /\ pc # "finalize")
          => /\ Range(Durable.completed_videos)
                  \subseteq Range(Durable'.completed_videos)
             /\ Durable.last_batch <= Durable'.last_batch]_vars


\* the counter of a progress state is the size of its completed set
CounterAgrees(p) ==
    p.total_processed = Cardinality(Range(p.completed_videos))

(* C38: in every progress state reached from a fresh start, across        *)
(* batches, crashes and resumed runs, in memory and in the progress file, *)
(* total_processed is the number of ids in the completed set.             *)
C38_CounterIsCompletedCount ==
    /\ CounterAgrees(progress)
    /\ CounterAgrees(loaded)
    /\ disk.kind = "file" => CounterAgrees(disk.data)

\* a resumed run loaded one completed id and has completed a second one
C38_Witness ==
    /\ resume
    /\ loaded.total_processed = 1
    /\ Len(loaded.completed_videos) = 1
    /\ progress.total_processed = 2
    /\ disk.kind = "file"
    /\ disk.data.total_processed = 2


(* C39: in the summary a run writes, the total of videos processed is the *)
(* number of successful extractions plus the number of failed ones.       *)
C39_SummaryTotalIsSum ==
    summary.kind = "written"
        => summary.total = summary.successful + summary.failed


\* what the other classifier returns for the arguments of the call, with
\* the category table the call was made with
OtherClassifier ==
    IF result.fn = "classify_video"
    THEN classify_content(args.title, args.description,
                          Ordered(config_tractate_patterns, args.order),
                          Ordered(series_types, args.order))
    ELSE classify_video(args.title, args.description,
                        Ordered(organizer_tractate_patterns, args.order))

(* C40: given the same pattern table, classify_video of the extractor and *)
(* classify_content of the organizer return the same (category,           *)
(* subcategory) pair for every title and description.                     *)
C40_ClassifiersAgree == Classified => result.value = OtherClassifier

====
